---------------------------- MODULE Spec2Model ----------------------------
(***************************************************************************)
(* Sistema de Demandas: the demand repository of                           *)
(* src/sistema_demandas/data_access.py (adicionar_demanda,                 *)
(* atualizar_demanda, excluir_demanda, gerar_codigo_demanda), the schema   *)
(* of src/sistema_demandas/migrations.py (unique index on codigo, CHECK    *)
(* quantidade > 0, ON DELETE CASCADE) and the older excluir_demanda of     *)
(* src/app.py, run by concurrent sessions against one PostgreSQL database  *)
(* at READ COMMITTED.  Every session holds its own connection: what it     *)
(* wrote is in conn[p] until conn.commit() moves it to the tables, and is  *)
(* dropped by conn.rollback() or by closing the connection.                *)
(* The queries carregar_demandas and obter_estatisticas read the committed *)
(* rows; the calls on table usuarios (autenticar_usuario, criar_usuario,   *)
(* atualizar_usuario, desativar_usuario) commit each write at once.        *)
(***************************************************************************)
EXTENDS Integers, FiniteSets, Sequences, TLC

VARIABLES
    demandas,            \* committed rows of table demandas
    historico_demandas,  \* committed rows of table historico_demandas
    demandas_id_seq,     \* SERIAL sequence of demandas.id
    historico_id_seq,    \* SERIAL sequence of historico_demandas.id
    agora,               \* the day of the run: agora_fortaleza(), CURRENT_TIMESTAMP
    pc,                  \* where each session is in its call
    funcao,              \* the function the session is running
    dados,               \* argument dados / dados_atualizados of the call
    demanda_id,          \* argument demanda_id of the call
    tentativa,           \* the index _ of "for _ in range(8)"
    codigo,              \* local codigo of adicionar_demanda
    nova_id,             \* local nova_id of adicionar_demanda
    demanda_antiga,      \* local demanda_antiga of atualizar_demanda
    campos,              \* local campos of atualizar_demanda (column names)
    conn,                \* the open transaction of the session
    commitou,            \* the call has executed conn.commit()
    result,              \* what the call returned
    ultima_seq,          \* per day prefix: NN of the last committed creation
                         \* (0: none since the last deletion)
    chamadas,            \* repository calls started so far
    consulta,            \* the last query: function, filtros, what it returned
    usuarios,            \* committed rows of table usuarios
    usuarios_id_seq,     \* SERIAL sequence of usuarios.id
    uarg,                \* arguments of the call on usuarios
    u,                   \* local u of autenticar_usuario
    inicio,              \* ids of the demands stored when the call started
    excluida,            \* the last committed DELETE of a demand: the code it
                         \* removed, and the code of the creation after it
    email                \* the dispatch of enviar_email_nova_demanda: its
                         \* configuration, the providers tried, what it returned

vars == <<demandas, historico_demandas, demandas_id_seq, historico_id_seq, agora,
          pc, funcao, dados, demanda_id, tentativa, codigo, nova_id, demanda_antiga,
          campos, conn, commitou, result, ultima_seq, excluida, chamadas,
          consulta, usuarios, usuarios_id_seq, uarg, u, inicio, email>>

\* the state of the queries, and of the calls on usuarios
vars_consulta == <<consulta>>

vars_usuarios == <<usuarios, usuarios_id_seq, uarg, u>>

\* what the calls on usuarios and the dispatches of e-mail leave alone
vars_demandas == <<demandas, historico_demandas, demandas_id_seq, historico_id_seq,
                   agora, dados, demanda_id, tentativa, codigo, nova_id,
                   demanda_antiga, campos, ultima_seq, excluida, vars_consulta, inicio>>

---------------------------------------------------------------------------
(* Bounds of the model *)

\* repository calls (create, update, delete) started in one run
MaxChamadas == 2
\* demands already stored when the run starts
MaxSemeadas == 1
\* the latest calendar day the run may take place on; the demands stored
\* before it are of day 1
MaxDia == 2

\* calls of adicionar_demanda started in a run of creations only
MaxCriacoes == 9

\* demands already stored on day 1 when a run of creations starts
MaxNoDia == 99

\* demands of several departments already stored when the queries start
MaxListadas == 2

\* dispatches of enviar_email_nova_demanda in a run
MaxEnvios == 2

\* a loop of one turn more
MaxTentativasMaisUma == 8 + 1

\* demands created on day 1 before the run of creations and deletions
MaxNoInicio == 3

\* a loop of one turn less
MaxTentativasMenosUma == 8 - 1

\* "for _ in range(8)"
MaxTentativas == 8

Procs == {"p1", "p2"}

Dias == 1..MaxDia

---------------------------------------------------------------------------
(* Values *)

\* a key the dict does not hold
SemStatus == "<ausente>"
SemQuantidade == -1
SemCodigo == [prefixo |-> 0, seq |-> 0]

SemTexto == "<ausente>"

\* dados: a dict over the columns the model tracks; a key is present when
\* its value is not the "ausente" marker of its column
SemDados ==
    [status |-> SemStatus, quantidade |-> SemQuantidade, codigo |-> SemCodigo,
     departamento |-> SemTexto, prioridade |-> SemTexto]

Colunas == {"status", "quantidade", "codigo"}

SemLinha ==
    [id |-> 0, codigo |-> SemCodigo, quantidade |-> 0, status |-> SemStatus,
     departamento |-> SemTexto, prioridade |-> SemTexto, data_atualizacao |-> 0]

\* no row of usuarios: cur.fetchone() returning None
SemUsuario ==
    [id |-> 0, username |-> SemTexto, email |-> SemTexto, senha_hash |-> <<>>,
     ativo |-> FALSE, ultimo_login |-> 0]

\* no call on usuarios: the arguments username, senha, usuario_id and the dict
\* dados_usuario / dados_atualizados, a function on the keys it holds
SemUarg == [usuario_id |-> 0, username |-> SemTexto, senha |-> SemTexto, dados |-> <<>>]

SemConn == [ins |-> {}, hist |-> {}, upd |-> FALSE, del |-> FALSE, lock |-> "none"]

SemResult == [tipo |-> "none"]

\* return None
None == [tipo |-> "None"]

\* return True / return False
Bool(b) == [tipo |-> "bool", valor |-> b]

\* return ok, "message"
Tupla(ok, msg) == [tipo |-> "tuple", ok |-> ok, msg |-> msg]


Setmax(S) == CHOOSE x \in S : \A y \in S : y <= x

---------------------------------------------------------------------------
(* The schema: migrations.py *)

\* the table without the CHECK on quantidade
CheckQuantidadeAusente(q) == TRUE

\* quantidade INTEGER NOT NULL CHECK (quantidade > 0)
CheckQuantidade(q) == q > 0

\* the table without the unique index on codigo
ViolaUniqueAusente(c, id) == FALSE

\* CREATE UNIQUE INDEX uq_demandas_codigo ON demandas(codigo): a committed
\* row other than row id holds codigo c
ViolaUnique(c, id) == \E d \in demandas : d.codigo = c /\ d.id # id

\* status VARCHAR(50) DEFAULT 'Pendente'
StatusDefault == "Pendente"

\* the foreign key without ON DELETE CASCADE enforcement
CascadeAusente(hist, id) == hist

\* demanda_id INTEGER REFERENCES demandas(id) ON DELETE CASCADE: the history
\* rows left when demand id is deleted
Cascade(hist, id) == {h \in hist : h.demanda_id # id}

Existe(id) == \E d \in demandas : d.id = id

Linha(id) == IF Existe(id) THEN CHOOSE d \in demandas : d.id = id ELSE SemLinha

---------------------------------------------------------------------------
(* Row locks and waits of PostgreSQL at READ COMMITTED *)

\* session q holds a lock of one of the modes on row id
Trava(q, id, modos) == demanda_id[q] = id /\ conn[q].lock \in modos

\* p must wait before it locks row id in mode m: DELETE and an UPDATE of a
\* unique column lock FOR UPDATE, any other UPDATE FOR NO KEY UPDATE, the
\* foreign-key check of an insert into historico_demandas FOR KEY SHARE
Espera(p, id, m) ==
    \E q \in Procs \ {p} :
        CASE m = "update" -> Trava(q, id, {"keyshare", "nokeyupd", "update"})
          [] m = "nokeyupd" -> Trava(q, id, {"nokeyupd", "update"})
          [] OTHER -> Trava(q, id, {"update"})

\* the unique index makes p wait: another open transaction inserted codigo c,
\* or is moving a row to or from c, or is deleting the row that holds c
EsperaUnique(p, c) ==
    \E q \in Procs \ {p} :
        \/ \E r \in conn[q].ins : r.codigo = c
        \/ /\ conn[q].upd
           /\ "codigo" \in campos[q]
           /\ dados[q].codigo # Linha(demanda_id[q]).codigo
           /\ (dados[q].codigo = c \/ Linha(demanda_id[q]).codigo = c)
        \/ conn[q].del /\ Existe(demanda_id[q]) /\ Linha(demanda_id[q]).codigo = c

---------------------------------------------------------------------------
(* conn.commit(), conn.rollback() *)

Valor(r, c) ==
    CASE c = "status" -> r.status
      [] c = "quantidade" -> r.quantidade
      [] OTHER -> r.codigo

\* UPDATE demandas SET <campos>, data_atualizacao = CURRENT_TIMESTAMP
Escrever(linha, d, cs, ts) ==
    [linha EXCEPT
        !.status = IF "status" \in cs THEN d.status ELSE @,
        !.quantidade = IF "quantidade" \in cs THEN d.quantidade ELSE @,
        !.codigo = IF "codigo" \in cs THEN d.codigo ELSE @,
        !.data_atualizacao = ts]

\* table demandas after conn.commit() of session p
DemandasAposCommit(p) ==
    LET c == conn[p]
        alvo == demanda_id[p]
        resto ==
            IF c.del THEN {d \in demandas : d.id # alvo}
            ELSE IF c.upd
                 THEN {IF d.id = alvo THEN Escrever(d, dados[p], campos[p], agora) ELSE d :
                          d \in demandas}
                 ELSE demandas
    IN  resto \cup c.ins

\* a commit that leaves out the history rows the transaction inserted
HistoricoAposCommitSemInsercoes(p) ==
    IF conn[p].del THEN Cascade(historico_demandas, demanda_id[p]) ELSE historico_demandas

\* table historico_demandas after conn.commit() of session p
HistoricoAposCommit(p) ==
    LET c == conn[p]
        todas == historico_demandas \cup c.hist
    IN  IF c.del THEN Cascade(todas, demanda_id[p]) ELSE todas

\* conn.rollback(), and get_db_connection closing a connection: what the
\* transaction wrote is dropped
Rollback == SemConn

---------------------------------------------------------------------------
(* Calls: return *)

\* no DELETE of a demand has been committed
SemExcluida ==
    [codigo |-> SemCodigo, maior |-> FALSE, emcurso |-> {}, proxima |-> SemCodigo]

\* conn.commit() of a DELETE by session p: the code of the row it removes,
\* whether it was the highest of its day, and the sessions in the middle of
\* a call at that moment
ExcluidaAposCommit(p) ==
    IF conn[p].del /\ Existe(demanda_id[p])
    THEN LET d == Linha(demanda_id[p])
         IN  [codigo |-> d.codigo,
              maior |-> \A e \in demandas :
                           e.codigo.prefixo = d.codigo.prefixo =>
                               e.codigo.seq <= d.codigo.seq,
              emcurso |-> {q \in Procs \ {p} : pc[q] \notin {"idle", "fim"}},
              proxima |-> SemCodigo]
    ELSE excluida

\* conn.commit() of an INSERT by session p: the first creation of the day
\* after the DELETE
ExcluidaAposCriacao(p) ==
    IF /\ excluida.codigo # SemCodigo
       /\ excluida.proxima = SemCodigo
       /\ excluida.codigo.prefixo = codigo[p].prefixo
    THEN [excluida EXCEPT !.proxima = codigo[p]]
    ELSE excluida

\* the call of session p returns r: the connection is closed, and what it
\* had not committed is rolled back
Sair(p, r) ==
    /\ pc' = [pc EXCEPT ![p] = "fim"]
    /\ result' = [result EXCEPT ![p] = r]
    /\ conn' = [conn EXCEPT ![p] = Rollback]

\* the caller takes the result; the locals of the call are gone
Retornar(p) ==
    /\ pc[p] = "fim"
    /\ pc' = [pc EXCEPT ![p] = "idle"]
    /\ funcao' = [funcao EXCEPT ![p] = ""]
    /\ result' = [result EXCEPT ![p] = SemResult]
    /\ dados' = [dados EXCEPT ![p] = SemDados]
    /\ demanda_id' = [demanda_id EXCEPT ![p] = 0]
    /\ tentativa' = [tentativa EXCEPT ![p] = 0]
    /\ codigo' = [codigo EXCEPT ![p] = SemCodigo]
    /\ nova_id' = [nova_id EXCEPT ![p] = 0]
    /\ demanda_antiga' = [demanda_antiga EXCEPT ![p] = SemLinha]
    /\ campos' = [campos EXCEPT ![p] = {}]
    /\ commitou' = [commitou EXCEPT ![p] = FALSE]
    /\ uarg' = [uarg EXCEPT ![p] = SemUarg]
    /\ u' = [u EXCEPT ![p] = SemUsuario]
    /\ inicio' = [inicio EXCEPT ![p] = {}]
    /\ UNCHANGED <<vars_consulta, usuarios, usuarios_id_seq, email>>
    /\ UNCHANGED <<demandas, historico_demandas, demandas_id_seq, historico_id_seq,
                   agora, conn, ultima_seq, excluida, chamadas>>

---------------------------------------------------------------------------
(* gerar_codigo_demanda, adicionar_demanda: data_access.py *)

\* the text of a code.  A text is a sequence of characters.

\* agora_fortaleza() on day d of the run: day, month, year.  Day 1 is the
\* last day of a year.
Calendario(d) == IF d = 1 THEN <<31, 12, 2024>> ELSE <<d - 1, 1, 2025>>

Algarismo(n) == <<"0", "1", "2", "3", "4", "5", "6", "7", "8", "9">>[n + 1]

\* str(n) of an integer n >= 0
RECURSIVE Decimal(_)
Decimal(n) == IF n < 10 THEN <<Algarismo(n)>> ELSE Decimal(n \div 10) \o <<Algarismo(n % 10)>>

\* f"{n:02d}": padded with a zero up to two characters, never cut
Formato02d(n) == IF n < 10 THEN <<"0">> \o Decimal(n) ELSE Decimal(n)

\* strftime("%d%m%y")
Strftime(data) == Formato02d(data[1]) \o Formato02d(data[2]) \o Formato02d(data[3] % 100)

\* the column codigo of a row: f"{prefixo}-{(max_seq + 1):02d}"
Texto(c) == Strftime(Calendario(c.prefixo)) \o <<"-">> \o Formato02d(c.seq)

\* the position of the first "-" of a text, 0 when there is none
Hifen(t) ==
    IF \E i \in 1..Len(t) : t[i] = "-"
    THEN CHOOSE i \in 1..Len(t) : t[i] = "-" /\ \A j \in 1..(i - 1) : t[j] # "-"
    ELSE 0

\* SPLIT_PART(codigo, '-', 2) of a text with one hyphen
SplitPart2(t) == IF Hifen(t) = 0 THEN <<>> ELSE SubSeq(t, Hifen(t) + 1, Len(t))

ValorAlgarismo(a) == CHOOSE n \in 0..9 : Algarismo(n) = a

\* text::int
RECURSIVE Inteiro(_)
Inteiro(t) ==
    IF Len(t) = 0 THEN 0
    ELSE 10 * Inteiro(SubSeq(t, 1, Len(t) - 1)) + ValorAlgarismo(t[Len(t)])

\* codigo LIKE f"{prefixo}-%"
Like(t, prefixo) ==
    /\ Len(t) >= Len(prefixo) + 1
    /\ SubSeq(t, 1, Len(prefixo) + 1) = prefixo \o <<"-">>

\* the highest sequence number of all the rows, whatever their day
MaxSeqSemPrefixo(linhas, prefixo) ==
    LET seqs == {Inteiro(SplitPart2(Texto(d.codigo))) : d \in linhas}
    IN  IF seqs = {} THEN 0 ELSE Setmax(seqs)

\* SELECT COALESCE(MAX(NULLIF(SPLIT_PART(codigo, '-', 2), '')::int), 0) FROM
\* demandas WHERE codigo LIKE f"{prefixo}-%"
MaxSeq(linhas, prefixo) ==
    LET seqs == {Inteiro(SplitPart2(Texto(d.codigo))) :
                    d \in {x \in linhas : Like(Texto(x.codigo), prefixo)}}
    IN  IF seqs = {} THEN 0 ELSE Setmax(seqs)

\* a generator that numbers the codes with the SERIAL of the table
GerarCodigoPorSerial(linhas, hoje) ==
    [prefixo |-> hoje, seq |-> demandas_id_seq + 1]

\* def gerar_codigo_demanda(cur): the code of the next demand of day hoje.
\* Its text is f"{prefixo}-{(max_seq + 1):02d}".
gerar_codigo_demanda(linhas, hoje) ==
    [prefixo |-> hoje, seq |-> MaxSeq(linhas, Strftime(Calendario(hoje))) + 1]

\* the dicts adicionar_demanda is called with
DadosCriacao ==
    {[SemDados EXCEPT !.quantidade = q, !.departamento = "TI", !.prioridade = "Alta"] :
        q \in {0, 1}}

\* enviar_email_nova_demanda (email_service.py), by its configuration
\* (MAIL_ON_NEW_DEMANDA, BREVO_API_KEY) and by what each provider answers
enviar_email_nova_demanda(enabled_new, brevo_ok, ok_api, ok_smtp) ==
    IF ~enabled_new THEN [ok |-> TRUE, msg |-> "Envio de email desativado por variável"]
    ELSE IF brevo_ok
         THEN IF ok_api THEN [ok |-> TRUE, msg |-> "E-mail enviado ao responsável"]
              ELSE IF ok_smtp
                   THEN [ok |-> TRUE, msg |-> "API falhou, mas SMTP funcionou."]
                   ELSE [ok |-> FALSE, msg |-> "API falhou. SMTP também falhou."]
         ELSE IF ok_smtp THEN [ok |-> TRUE, msg |-> "SMTP OK"]
              ELSE [ok |-> FALSE, msg |-> "Falha ao enviar email."]

\* the configuration a dispatch reads: MAIL_ON_NEW_DEMANDA; BREVO_API_KEY
\* set; BREVO_SENDER and a list of receivers set; SMTP_HOST, SMTP_USER,
\* the password and MAIL_TO set
ConfigsEmail ==
    [enabled_new : BOOLEAN, api_key : BOOLEAN, brevo_completo : BOOLEAN,
     smtp_configurado : BOOLEAN]

SemRetorno == [ok |-> FALSE, msg |-> ""]

SemEmail ==
    [pc |-> "idle",
     cfg |-> [enabled_new |-> TRUE, api_key |-> FALSE, brevo_completo |-> FALSE,
              smtp_configurado |-> FALSE],
     tentativas |-> <<>>, retorno |-> SemRetorno, envios |-> 0]

\* a dispatch that starts with SMTP whatever the configuration
PrimeiroProvedorSmtp(cfg) == "smtp"

\* brevo_ok = bool(brevo_cfg.get("api_key")); "if brevo_ok:" the API is
\* called first, else SMTP
PrimeiroProvedor(cfg) == IF cfg.api_key THEN "api" ELSE "smtp"

\* provider prov was tried and answered ok
Enviou(tentativas, prov) ==
    \E i \in 1..Len(tentativas) : tentativas[i] = [provedor |-> prov, ok |-> TRUE]

\* what the dispatch returns once the providers in tentativas were tried
RetornoEmail(cfg, tentativas) ==
    enviar_email_nova_demanda(cfg.enabled_new, cfg.api_key,
                              Enviou(tentativas, "api"), Enviou(tentativas, "smtp"))

\* def enviar_email_nova_demanda(dados_email): "if not
\* cfg_mail["enabled_new"]: return True, ..."; else the first provider
EnviarEmailNovaDemanda ==
    /\ email.pc = "idle"
    /\ email.envios < MaxEnvios
    /\ email' = IF ~email.cfg.enabled_new
                THEN [email EXCEPT !.pc = "fim", !.envios = @ + 1,
                                   !.retorno = RetornoEmail(email.cfg, <<>>)]
                ELSE [email EXCEPT !.pc = PrimeiroProvedor(email.cfg), !.envios = @ + 1]
    /\ UNCHANGED <<vars_demandas, vars_usuarios, pc, funcao, conn, commitou, result,
                   chamadas>>

\* ok_api, msg_api = enviar_email_brevo_api(assunto, corpo): False without a
\* request when the sender or the receivers are missing, else by the answer
\* to requests.post; "if ok_api: return True, msg_api"
EnviarEmailBrevoApi ==
    /\ email.pc = "api"
    /\ \E ok \in (IF email.cfg.brevo_completo THEN BOOLEAN ELSE {FALSE}) :
          LET ts == Append(email.tentativas, [provedor |-> "api", ok |-> ok])
          IN  email' = IF ok
                       THEN [email EXCEPT !.pc = "fim", !.tentativas = ts,
                                          !.retorno = RetornoEmail(email.cfg, ts)]
                       ELSE [email EXCEPT !.pc = "smtp", !.tentativas = ts]
    /\ UNCHANGED <<vars_demandas, vars_usuarios, pc, funcao, conn, commitou, result,
                   chamadas>>

\* ok_smtp, msg_smtp = enviar_email_smtp(assunto, corpo): False without a
\* connection when SMTP is not configured, else by the TCP probe and the
\* server; the dispatch returns either way
EnviarEmailSmtp ==
    /\ email.pc = "smtp"
    /\ \E ok \in (IF email.cfg.smtp_configurado THEN BOOLEAN ELSE {FALSE}) :
          LET ts == Append(email.tentativas, [provedor |-> "smtp", ok |-> ok])
          IN  email' = [email EXCEPT !.pc = "fim", !.tentativas = ts,
                                     !.retorno = RetornoEmail(email.cfg, ts)]
    /\ UNCHANGED <<vars_demandas, vars_usuarios, pc, funcao, conn, commitou, result,
                   chamadas>>

\* the caller takes (ok_mail, msg_mail)
RetornarEmail ==
    /\ email.pc = "fim"
    /\ email' = [email EXCEPT !.pc = "idle", !.tentativas = <<>>, !.retorno = SemRetorno]
    /\ UNCHANGED <<vars_demandas, vars_usuarios, pc, funcao, conn, commitou, result,
                   chamadas>>

\* a return that gives the caller nothing when the notification failed
RetornoAdicionarSoComEmail(id, cod, mail) ==
    IF mail.ok
    THEN [tipo |-> "dict", id |-> id, codigo |-> cod, email_ok |-> mail.ok,
          email_msg |-> mail.msg]
    ELSE None

\* return {"id": nova_id, "codigo": codigo_ok, "email_ok": ..., "email_msg": ...}
RetornoAdicionar(id, cod, mail) ==
    [tipo |-> "dict", id |-> id, codigo |-> cod, email_ok |-> mail.ok, email_msg |-> mail.msg]

\* def adicionar_demanda(dados): the connection is opened, and the first
\* turn of the loop calls gerar_codigo_demanda(cur); limite is the number of
\* calls the run may start
Adicionar(p, limite) ==
    /\ pc[p] = "idle"
    /\ funcao' = [funcao EXCEPT ![p] = "adicionar_demanda"]
    /\ chamadas < limite
    /\ \E d \in DadosCriacao : dados' = [dados EXCEPT ![p] = d]
    /\ chamadas' = chamadas + 1
    /\ tentativa' = [tentativa EXCEPT ![p] = 0]
    /\ codigo' = [codigo EXCEPT ![p] = gerar_codigo_demanda(demandas, agora)]
    /\ pc' = [pc EXCEPT ![p] = "inserir"]
    /\ inicio' = [inicio EXCEPT ![p] = {d.id : d \in demandas}]
    /\ UNCHANGED <<vars_consulta, vars_usuarios, email>>
    /\ UNCHANGED <<demandas, historico_demandas, demandas_id_seq, historico_id_seq,
                   agora, demanda_id, nova_id, demanda_antiga, campos, conn,
                   commitou, result, ultima_seq, excluida>>

AdicionarDemanda(p) == Adicionar(p, MaxChamadas)

\* adicionar_demanda in a run of queries: one demand is created
AdicionarDemandaUmaVez(p) == Adicionar(p, 1)

\* adicionar_demanda in a run of creations only
AdicionarDemandaEmSerie(p) == Adicionar(p, MaxCriacoes)

\* codigo = gerar_codigo_demanda(cur), in a later turn of the loop
GerarCodigo(p) ==
    /\ pc[p] = "gerar"
    /\ codigo' = [codigo EXCEPT ![p] = gerar_codigo_demanda(demandas, agora)]
    /\ pc' = [pc EXCEPT ![p] = "inserir"]
    /\ UNCHANGED <<vars_consulta, vars_usuarios, inicio, email>>
    /\ UNCHANGED <<funcao, demandas, historico_demandas, demandas_id_seq, historico_id_seq,
                   agora, dados, demanda_id, tentativa, nova_id, demanda_antiga,
                   campos, conn, commitou, result, ultima_seq, excluida, chamadas>>

\* INSERT INTO demandas ... RETURNING id, codigo; INSERT INTO
\* historico_demandas (nova_id, solicitante, "CRIAÇÃO", dumps_safe(dados)).
\* The ids are those of the stored rows: the gaps a refused INSERT leaves in
\* the sequence are not kept.  A CHECK violation leaves through "except Exception" (return None); a
\* UniqueViolation rolls back and takes the next turn of the loop, and the
\* loop ending returns None.
InserirDemanda(p) ==
    LET id == demandas_id_seq + 1
        linha == [id |-> id, codigo |-> codigo[p], quantidade |-> dados[p].quantidade,
                  status |-> StatusDefault, departamento |-> dados[p].departamento,
                  prioridade |-> dados[p].prioridade, data_atualizacao |-> agora]
        h == [id |-> historico_id_seq + 1, demanda_id |-> id,
              acao |-> "CRIAÇÃO", detalhes |-> dados[p]]
    IN  /\ pc[p] = "inserir"
        /\ IF ~CheckQuantidade(dados[p].quantidade)
           THEN /\ Sair(p, None)
                /\ UNCHANGED <<tentativa, nova_id, demandas_id_seq, historico_id_seq>>
           ELSE /\ ~EsperaUnique(p, codigo[p])
                /\ IF ViolaUnique(codigo[p], 0)
                   THEN /\ tentativa' = [tentativa EXCEPT ![p] = @ + 1]
                        /\ IF tentativa[p] + 1 < MaxTentativas
                           THEN /\ pc' = [pc EXCEPT ![p] = "gerar"]
                                /\ conn' = [conn EXCEPT ![p] = Rollback]
                                /\ UNCHANGED result
                           ELSE Sair(p, None)
                        /\ UNCHANGED <<nova_id, demandas_id_seq, historico_id_seq>>
                   ELSE /\ conn' = [conn EXCEPT ![p].ins = {linha}, ![p].hist = {h}]
                        /\ nova_id' = [nova_id EXCEPT ![p] = id]
                        /\ demandas_id_seq' = id
                        /\ historico_id_seq' = historico_id_seq + 1
                        /\ pc' = [pc EXCEPT ![p] = "commit"]
                        /\ UNCHANGED <<tentativa, result>>
        /\ UNCHANGED <<vars_consulta, vars_usuarios, inicio, email>>
        /\ UNCHANGED <<funcao, demandas, historico_demandas, agora, dados, demanda_id, codigo,
                       demanda_antiga, campos, commitou, ultima_seq, excluida, chamadas>>

\* conn.commit() of adicionar_demanda
CommitCriacao(p) ==
    /\ pc[p] = "commit"
    /\ funcao[p] = "adicionar_demanda"
    /\ demandas' = DemandasAposCommit(p)
    /\ historico_demandas' = HistoricoAposCommit(p)
    /\ conn' = [conn EXCEPT ![p] = Rollback]
    /\ commitou' = [commitou EXCEPT ![p] = TRUE]
    /\ ultima_seq' = [ultima_seq EXCEPT ![codigo[p].prefixo] = codigo[p].seq]
    /\ excluida' = ExcluidaAposCriacao(p)
    /\ pc' = [pc EXCEPT ![p] = "email"]
    /\ UNCHANGED <<vars_consulta, vars_usuarios, inicio, email>>
    /\ UNCHANGED <<funcao, demandas_id_seq, historico_id_seq, agora, dados, demanda_id,
                   tentativa, codigo, nova_id, demanda_antiga, campos, result,
                   chamadas>>

\* ok_mail, msg_mail = enviar_email_nova_demanda(...); return {...}
Notificar(p) ==
    /\ pc[p] = "email"
    /\ \E enabled_new, brevo_ok, ok_api, ok_smtp \in BOOLEAN :
          Sair(p, RetornoAdicionar(nova_id[p], codigo[p],
                   enviar_email_nova_demanda(enabled_new, brevo_ok, ok_api, ok_smtp)))
    /\ UNCHANGED <<vars_consulta, vars_usuarios, inicio, email>>
    /\ UNCHANGED <<funcao, demandas, historico_demandas, demandas_id_seq, historico_id_seq,
                   agora, dados, demanda_id, tentativa, codigo, nova_id,
                   demanda_antiga, campos, commitou, ultima_seq, excluida, chamadas>>

---------------------------------------------------------------------------
(* adicionar_demanda: app.py.  The loop of gerar_codigo_demanda and the two
   INSERTs is the one of data_access.py; what follows conn.commit() differs *)

\* def adicionar_demanda(dados) of app.py: the connection is opened, and the
\* first turn of the loop calls gerar_codigo_demanda(cur)
AppAdicionarDemanda(p) ==
    /\ pc[p] = "idle"
    /\ funcao' = [funcao EXCEPT ![p] = "app.adicionar_demanda"]
    /\ chamadas < MaxChamadas
    /\ \E d \in DadosCriacao : dados' = [dados EXCEPT ![p] = d]
    /\ chamadas' = chamadas + 1
    /\ tentativa' = [tentativa EXCEPT ![p] = 0]
    /\ codigo' = [codigo EXCEPT ![p] = gerar_codigo_demanda(demandas, agora)]
    /\ pc' = [pc EXCEPT ![p] = "inserir"]
    /\ inicio' = [inicio EXCEPT ![p] = {d.id : d \in demandas}]
    /\ UNCHANGED <<vars_consulta, vars_usuarios, email>>
    /\ UNCHANGED <<demandas, historico_demandas, demandas_id_seq, historico_id_seq,
                   agora, demanda_id, nova_id, demanda_antiga, campos, conn,
                   commitou, result, ultima_seq, excluida>>

\* conn.commit() of app.py's adicionar_demanda; the SELECT of the new row
\* follows on the same cursor
AppCommitCriacao(p) ==
    /\ pc[p] = "commit"
    /\ funcao[p] = "app.adicionar_demanda"
    /\ demandas' = DemandasAposCommit(p)
    /\ historico_demandas' = HistoricoAposCommit(p)
    /\ conn' = [conn EXCEPT ![p] = Rollback]
    /\ commitou' = [commitou EXCEPT ![p] = TRUE]
    /\ ultima_seq' = [ultima_seq EXCEPT ![codigo[p].prefixo] = codigo[p].seq]
    /\ excluida' = ExcluidaAposCriacao(p)
    /\ pc' = [pc EXCEPT ![p] = "a_busca"]
    /\ UNCHANGED <<vars_consulta, vars_usuarios, inicio, email>>
    /\ UNCHANGED <<funcao, demandas_id_seq, historico_id_seq, agora, dados, demanda_id,
                   tentativa, codigo, nova_id, demanda_antiga, campos, result,
                   chamadas>>

\* return {"id": nova_id, "codigo": codigo_ok}
RetornoAppAdicionar(id, cod) ==
    [tipo |-> "dict", id |-> id, codigo |-> cod]

\* cur.execute(SELECT d.*, TO_CHAR(...) FROM demandas d WHERE d.id = nova_id);
\* demanda_criada = cur.fetchone(); if demanda_criada: demanda_email = {...,
\* "data_criacao_formatada": demanda_criada["data_criacao_formatada"]}.
\* The cursor is conn.cursor(), whose rows are tuples: indexing one with a
\* string raises TypeError, which "except Exception" turns into return None.
\* A database error in the SELECT (erro) ends in the same handler.  Only when
\* the row is gone (achou is false) is the dict returned.
RetornoAposBusca(achou, erro, id, cod) ==
    IF erro \/ achou THEN None ELSE RetornoAppAdicionar(id, cod)

\* the steps of app.py's adicionar_demanda after conn.commit()
AppBuscarCriada(p) ==
    /\ pc[p] = "a_busca"
    /\ \E erro \in BOOLEAN :
          Sair(p, RetornoAposBusca(Existe(nova_id[p]), erro, nova_id[p], codigo[p]))
    /\ UNCHANGED <<vars_consulta, vars_usuarios, inicio, email>>
    /\ UNCHANGED <<funcao, demandas, historico_demandas, demandas_id_seq, historico_id_seq,
                   agora, dados, demanda_id, tentativa, codigo, nova_id,
                   demanda_antiga, campos, commitou, ultima_seq, excluida, chamadas>>

---------------------------------------------------------------------------
(* atualizar_demanda: data_access.py *)

\* the values the model draws for the keys of dados_atualizados
QuantidadesEntrada == {0, 2}

StatusEntrada == {"Concluída"}

\* a status that no form of the application offers
StatusForaDaLista == "Arquivada"

CodigosEntrada == {[prefixo |-> 2, seq |-> 1]}

\* the dicts atualizar_demanda is called with: any subset of the columns
DadosAtualizados ==
    {[SemDados EXCEPT !.status = s, !.quantidade = q, !.codigo = c] :
        s \in StatusEntrada \cup {SemStatus},
        q \in QuantidadesEntrada \cup {SemQuantidade},
        c \in CodigosEntrada \cup {SemCodigo}}
    \cup {[SemDados EXCEPT !.status = StatusForaDaLista]}

\* dados_atualizados.items(): the keys of the dict
Chaves(d) ==
    {c \in Colunas :
        CASE c = "status" -> d.status # SemStatus
          [] c = "quantidade" -> d.quantidade # SemQuantidade
          [] OTHER -> d.codigo # SemCodigo}

\* a loop that does not skip the keys whose value is the stored one
CamposAlteradosSemFiltro(antiga, d) == Chaves(d)

\* the loop over dados_atualizados.items(): a key whose value equals the one
\* of demanda_antiga is skipped, every other one goes to campos
CamposAlterados(antiga, d) == {c \in Chaves(d) : Valor(antiga, c) # Valor(d, c)}

\* detalhes_historico["antigo"], ["novo"]: the values of the keys in cs
Projecao(r, cs) ==
    [status |-> IF "status" \in cs THEN r.status ELSE SemStatus,
     quantidade |-> IF "quantidade" \in cs THEN r.quantidade ELSE SemQuantidade,
     codigo |-> IF "codigo" \in cs THEN r.codigo ELSE SemCodigo]

\* the ids a caller may pass: a stored demand, or one that never existed
IdsAlvo == {d.id : d \in demandas} \cup {demandas_id_seq + 1}

\* def atualizar_demanda(demanda_id, dados_atualizados): SELECT * FROM demandas
\* WHERE id = demanda_id; "if not demanda_antiga: return False"; the loop that
\* fills campos; "if not campos: return True"
AtualizarDemanda(p) ==
    /\ pc[p] = "idle"
    /\ funcao' = [funcao EXCEPT ![p] = "atualizar_demanda"]
    /\ chamadas < MaxChamadas
    /\ chamadas' = chamadas + 1
    /\ \E id \in IdsAlvo, d \in DadosAtualizados :
          LET antiga == Linha(id)
              cs == CamposAlterados(antiga, d)
          IN  /\ demanda_id' = [demanda_id EXCEPT ![p] = id]
              /\ dados' = [dados EXCEPT ![p] = d]
              /\ IF ~Existe(id)
                 THEN /\ Sair(p, Bool(FALSE))
                      /\ UNCHANGED <<demanda_antiga, campos>>
                 ELSE /\ demanda_antiga' = [demanda_antiga EXCEPT ![p] = antiga]
                      /\ campos' = [campos EXCEPT ![p] = cs]
                      /\ IF cs = {}
                         THEN Sair(p, Bool(TRUE))
                         ELSE /\ pc' = [pc EXCEPT ![p] = "u_update"]
                              /\ UNCHANGED <<conn, result>>
    /\ UNCHANGED <<vars_consulta, vars_usuarios, inicio, email>>
    /\ UNCHANGED <<demandas, historico_demandas, demandas_id_seq, historico_id_seq,
                   agora, tentativa, codigo, nova_id, commitou, ultima_seq, excluida>>

\* UPDATE demandas SET <campos>, data_atualizacao = CURRENT_TIMESTAMP WHERE id;
\* INSERT INTO historico_demandas (demanda_id, usuario, "ATUALIZAÇÃO",
\* dumps_safe(detalhes_historico)).  The UPDATE waits for the lock of the row
\* and writes the row as it is then.  A CHECK or unique violation leaves
\* through "except Exception" (return False); so does the foreign key of the
\* history row when the demand was deleted meanwhile (an UPDATE of no row).
ExecutarUpdate(p) ==
    LET id == demanda_id[p]
        atual == Linha(id)
        nova == Escrever(atual, dados[p], campos[p], agora)
        modo == IF nova.codigo # atual.codigo THEN "update" ELSE "nokeyupd"
        h == [id |-> historico_id_seq + 1, demanda_id |-> id,
              acao |-> "ATUALIZAÇÃO",
              detalhes |-> [antigo |-> Projecao(demanda_antiga[p], campos[p]),
                            novo |-> Projecao(dados[p], campos[p])]]
    IN  /\ pc[p] = "u_update"
        /\ IF ~Existe(id)
           THEN /\ Sair(p, Bool(FALSE))
                /\ UNCHANGED historico_id_seq
           ELSE /\ ~Espera(p, id, modo)
                /\ IF ~CheckQuantidade(nova.quantidade)
                   THEN /\ Sair(p, Bool(FALSE))
                        /\ UNCHANGED historico_id_seq
                   ELSE /\ ~EsperaUnique(p, nova.codigo)
                        /\ IF ViolaUnique(nova.codigo, id)
                           THEN /\ Sair(p, Bool(FALSE))
                                /\ UNCHANGED historico_id_seq
                           ELSE /\ conn' = [conn EXCEPT ![p].upd = TRUE, ![p].lock = modo,
                                                        ![p].hist = {h}]
                                /\ historico_id_seq' = historico_id_seq + 1
                                /\ pc' = [pc EXCEPT ![p] = "u_commit"]
                                /\ UNCHANGED result
        /\ UNCHANGED <<vars_consulta, vars_usuarios, inicio, email>>
        /\ UNCHANGED <<funcao, demandas, historico_demandas, demandas_id_seq, agora, dados,
                       demanda_id, tentativa, codigo, nova_id, demanda_antiga, campos,
                       commitou, ultima_seq, excluida, chamadas>>

\* conn.commit(); return True
CommitAtualizacao(p) ==
    /\ pc[p] = "u_commit"
    /\ demandas' = DemandasAposCommit(p)
    /\ historico_demandas' = HistoricoAposCommit(p)
    /\ commitou' = [commitou EXCEPT ![p] = TRUE]
    /\ Sair(p, Bool(TRUE))
    /\ UNCHANGED <<vars_consulta, vars_usuarios, inicio, email>>
    /\ UNCHANGED <<funcao, demandas_id_seq, historico_id_seq, agora, dados, demanda_id,
                   tentativa, codigo, nova_id, demanda_antiga, campos, ultima_seq, excluida,
                   chamadas>>

---------------------------------------------------------------------------
(* excluir_demanda: data_access.py *)

\* DELETE FROM demandas WHERE id = demanda_id, once the lock of the row is
\* free; a row that is not stored gives a DELETE of no row
Delete(p, id) ==
    IF Existe(id)
    THEN /\ ~Espera(p, id, "update")
         /\ conn' = [conn EXCEPT ![p].del = TRUE, ![p].lock = "update"]
    ELSE UNCHANGED conn

\* def excluir_demanda(demanda_id): the DELETE
ExcluirDemanda(p) ==
    /\ pc[p] = "idle"
    /\ funcao' = [funcao EXCEPT ![p] = "excluir_demanda"]
    /\ chamadas < MaxChamadas
    /\ chamadas' = chamadas + 1
    /\ \E id \in IdsAlvo :
          /\ demanda_id' = [demanda_id EXCEPT ![p] = id]
          /\ Delete(p, id)
    /\ pc' = [pc EXCEPT ![p] = "d_commit"]
    /\ UNCHANGED <<vars_consulta, vars_usuarios, inicio, email>>
    /\ UNCHANGED <<demandas, historico_demandas, demandas_id_seq, historico_id_seq,
                   agora, dados, tentativa, codigo, nova_id, demanda_antiga, campos,
                   commitou, result, ultima_seq, excluida>>

\* conn.commit(); return True.  The cascade removes the history of the row.
CommitExclusao(p) ==
    /\ pc[p] = "d_commit"
    /\ demandas' = DemandasAposCommit(p)
    /\ historico_demandas' = HistoricoAposCommit(p)
    /\ commitou' = [commitou EXCEPT ![p] = TRUE]
    /\ ultima_seq' = IF conn[p].del THEN [d \in Dias |-> 0] ELSE ultima_seq
    /\ excluida' = ExcluidaAposCommit(p)
    /\ Sair(p, Bool(TRUE))
    /\ UNCHANGED <<vars_consulta, vars_usuarios, inicio, email>>
    /\ UNCHANGED <<funcao, demandas_id_seq, historico_id_seq, agora, dados, demanda_id,
                   tentativa, codigo, nova_id, demanda_antiga, campos, chamadas>>

---------------------------------------------------------------------------
(* excluir_demanda: app.py *)

\* def excluir_demanda(demanda_id): SELECT * FROM demandas WHERE id =
\* demanda_id; dados = cur.fetchone()
AppExcluirDemanda(p) ==
    /\ pc[p] = "idle"
    /\ funcao' = [funcao EXCEPT ![p] = "app.excluir_demanda"]
    /\ chamadas < MaxChamadas
    /\ chamadas' = chamadas + 1
    /\ \E id \in IdsAlvo :
          /\ demanda_id' = [demanda_id EXCEPT ![p] = id]
          /\ demanda_antiga' = [demanda_antiga EXCEPT ![p] = Linha(id)]
    /\ pc' = [pc EXCEPT ![p] = "a_historico"]
    /\ UNCHANGED <<vars_consulta, vars_usuarios, inicio, email>>
    /\ UNCHANGED <<demandas, historico_demandas, demandas_id_seq, historico_id_seq,
                   agora, dados, tentativa, codigo, nova_id, campos, conn, commitou,
                   result, ultima_seq, excluida>>

\* INSERT INTO historico_demandas (demanda_id, usuario, "EXCLUSÃO",
\* dumps_safe(dados or {})): the foreign key locks the demand FOR KEY SHARE,
\* and refuses a demanda_id that is not stored ("except Exception": return
\* False)
AppInserirHistoricoExclusao(p) ==
    LET h == [id |-> historico_id_seq + 1, demanda_id |-> demanda_id[p],
              acao |-> "EXCLUSÃO", detalhes |-> demanda_antiga[p]]
    IN  /\ pc[p] = "a_historico"
        /\ IF ~Existe(demanda_id[p])
           THEN /\ Sair(p, Bool(FALSE))
                /\ UNCHANGED historico_id_seq
           ELSE /\ ~Espera(p, demanda_id[p], "keyshare")
                /\ historico_id_seq' = historico_id_seq + 1
                /\ conn' = [conn EXCEPT ![p].hist = @ \cup {h}, ![p].lock = "keyshare"]
                /\ pc' = [pc EXCEPT ![p] = "a_delete"]
                /\ UNCHANGED result
        /\ UNCHANGED <<vars_consulta, vars_usuarios, inicio, email>>
        /\ UNCHANGED <<funcao, demandas, historico_demandas, demandas_id_seq, agora, dados,
                       demanda_id, tentativa, codigo, nova_id, demanda_antiga,
                       campos, commitou, ultima_seq, excluida, chamadas>>

\* DELETE FROM demandas WHERE id = demanda_id, in excluir_demanda of app.py
AppExecutarDelete(p) ==
    /\ pc[p] = "a_delete"
    /\ Delete(p, demanda_id[p])
    /\ pc' = [pc EXCEPT ![p] = "d_commit"]
    /\ UNCHANGED <<vars_consulta, vars_usuarios, inicio, email>>
    /\ UNCHANGED <<funcao, demandas, historico_demandas, demandas_id_seq, historico_id_seq,
                   agora, dados, demanda_id, tentativa, codigo, nova_id,
                   demanda_antiga, campos, commitou, result, ultima_seq, excluida, chamadas>>

\* two sessions hold the key-share lock of the same demand and each waits
\* for the other to delete it: PostgreSQL ends one of them with a deadlock
\* error ("except Exception": return False)
AppDeadlock(p) ==
    /\ pc[p] = "a_delete"
    /\ \E q \in Procs \ {p} :
          pc[q] = "a_delete" /\ Trava(q, demanda_id[p], {"keyshare"})
    /\ Sair(p, Bool(FALSE))
    /\ UNCHANGED <<vars_consulta, vars_usuarios, inicio, email>>
    /\ UNCHANGED <<funcao, demandas, historico_demandas, demandas_id_seq, historico_id_seq,
                   agora, dados, demanda_id, tentativa, codigo, nova_id,
                   demanda_antiga, campos, commitou, ultima_seq, excluida, chamadas>>

---------------------------------------------------------------------------
(* normalizar_busca_codigo, carregar_demandas, obter_estatisticas:
   data_access.py; carregar_demandas: app.py *)

\* s.replace("/", "").replace(" ", "").replace(".", "").replace("_", "")
\* a normalisation that removes the blanks only
SemSeparadoresSoEspaco(t) == SelectSeq(t, LAMBDA a : a # " ")

\* s.replace("/", "").replace(" ", "").replace(".", "").replace("_", "")
SemSeparadores(t) == SelectSeq(t, LAMBDA a : a \notin {"/", " ", ".", "_"})

\* str.isdigit() of a text that is not empty
IsDigit(t) == \A i \in 1..Len(t) : \E n \in 0..9 : Algarismo(n) = t[i]

\* normalizar_busca_codigo(texto); the text is already stripped
normalizar_busca_codigo(texto) ==
    IF Len(texto) = 0 THEN <<>>
    ELSE LET t == SemSeparadores(texto)
         IN  IF Len(t) = 8 /\ IsDigit(t)
             THEN SubSeq(t, 1, 6) \o <<"-">> \o SubSeq(t, 7, 8)
             ELSE t

\* filtros: a dict; a key that is absent, an empty list and an empty text
\* are all falsy for filtros.get(key)
SemFiltros == [status |-> {}, departamento |-> {}, prioridade |-> {}, codigo |-> <<>>]

\* the code of the first demand of day 1, as a user types it: with the
\* hyphen, as eight digits, and as a date with slashes
CodigosBusca ==
    LET t == Texto([prefixo |-> 1, seq |-> 1])
    IN  {t, SelectSeq(t, LAMBDA a : a # "-"),
         SubSeq(t, 1, 2) \o <<"/">> \o SubSeq(t, 3, 4) \o <<"/">> \o SubSeq(t, 5, Len(t))}

\* the values of filtros the queries are called with
Filtros ==
    {[status |-> s, departamento |-> dp, prioridade |-> pr, codigo |-> c] :
        s \in {{}, {"Pendente"}}, dp \in {{}, {"TI"}}, pr \in {{}, {"Alta"}},
        c \in {<<>>} \cup CodigosBusca}

\* the WHERE of carregar_demandas in data_access.py, over the columns of the
\* model: codigo, status, prioridade
WhereCarregar(d, f) ==
    /\ Len(f.codigo) # 0 => Texto(d.codigo) = normalizar_busca_codigo(f.codigo)
    /\ f.status # {} => d.status \in f.status
    /\ f.prioridade # {} => d.prioridade \in f.prioridade

\* the WHERE of carregar_demandas in app.py: status, departamento,
\* prioridade, codigo
WhereAppCarregar(d, f) ==
    /\ f.status # {} => d.status \in f.status
    /\ f.departamento # {} => d.departamento \in f.departamento
    /\ f.prioridade # {} => d.prioridade \in f.prioridade
    /\ Len(f.codigo) # 0 => Texto(d.codigo) = normalizar_busca_codigo(f.codigo)

\* a WHERE of obter_estatisticas that leaves the status filter out
WhereEstatisticasSemStatus(d, f) ==
    /\ Len(f.codigo) # 0 => Texto(d.codigo) = normalizar_busca_codigo(f.codigo)
    /\ f.prioridade # {} => d.prioridade \in f.prioridade

\* the WHERE of obter_estatisticas: codigo, status, prioridade
WhereEstatisticas(d, f) ==
    /\ Len(f.codigo) # 0 => Texto(d.codigo) = normalizar_busca_codigo(f.codigo)
    /\ f.status # {} => d.status \in f.status
    /\ f.prioridade # {} => d.prioridade \in f.prioridade

\* cur.fetchall() of carregar_demandas: the rows, without their order
carregar_demandas(linhas, f) == {d \in linhas : WhereCarregar(d, f)}

app_carregar_demandas(linhas, f) == {d \in linhas : WhereAppCarregar(d, f)}

\* SUM(quantidade) over a set of rows
RECURSIVE SomaQuantidade(_)
SomaQuantidade(linhas) ==
    IF linhas = {} THEN 0
    ELSE LET d == CHOOSE x \in linhas : TRUE
         IN  d.quantidade + SomaQuantidade(linhas \ {d})

\* estat["totais"] of obter_estatisticas: COUNT(*), the COUNT(CASE WHEN
\* status = ...) and COALESCE(SUM(quantidade), 0)
obter_estatisticas(linhas, f) ==
    LET sel == {d \in linhas : WhereEstatisticas(d, f)}
    IN  [total |-> Cardinality(sel),
         pendentes |-> Cardinality({d \in sel : d.status = "Pendente"}),
         em_andamento |-> Cardinality({d \in sel : d.status = "Em andamento"}),
         concluidas |-> Cardinality({d \in sel : d.status = "Concluída"}),
         canceladas |-> Cardinality({d \in sel : d.status = "Cancelada"}),
         total_itens |-> SomaQuantidade(sel)]

SemConsulta == [funcao |-> "", filtros |-> SemFiltros, resultado |-> {}]

\* a query is one SELECT on the committed rows; its connection writes nothing
Consultar(nome, f, r) ==
    /\ consulta' = [funcao |-> nome, filtros |-> f, resultado |-> r]
    /\ UNCHANGED <<demandas, historico_demandas, demandas_id_seq, historico_id_seq,
                   agora, pc, funcao, dados, demanda_id, tentativa, codigo, nova_id,
                   demanda_antiga, campos, conn, commitou, result, ultima_seq, excluida,
                   chamadas, vars_usuarios, inicio, email>>

\* def carregar_demandas(filtros=None), data_access.py
CarregarDemandas ==
    \E f \in Filtros : Consultar("carregar_demandas", f, carregar_demandas(demandas, f))

\* def carregar_demandas(filtros=None), app.py
AppCarregarDemandas ==
    \E f \in Filtros :
        Consultar("app.carregar_demandas", f, app_carregar_demandas(demandas, f))

\* def obter_estatisticas(filtros=None), data_access.py
ObterEstatisticas ==
    \E f \in Filtros :
        Consultar("obter_estatisticas", f, obter_estatisticas(demandas, f))

---------------------------------------------------------------------------
(* auth.py; autenticar_usuario, criar_usuario, atualizar_usuario,
   desativar_usuario: data_access.py.  A call that runs one UPDATE or INSERT
   and commits at once is one step: nothing else of it is seen in between. *)

\* hashlib.sha256(password.encode()).hexdigest(): two passwords with one
\* hash are not modelled
hash_password(password) == <<"sha256", password>>

\* a comparison that accepts every password
VerificarSenhaSempre(senha_digitada, senha_hash) == TRUE

\* return hash_password(senha_digitada) == senha_hash
verificar_senha(senha_digitada, senha_hash) == hash_password(senha_digitada) = senha_hash

\* the user names and e-mail addresses of the model, by the id their first
\* owner gets
Nomes == <<"admin", "ana", "bia", "caio">>

Emails == <<"admin@sistema.com", "ana@sistema.com", "bia@sistema.com", "caio@sistema.com">>

Senhas == {"admin123", "senha"}

\* init_database: INSERT INTO usuarios ("Administrador Principal",
\* "admin@sistema.com", "admin", hash_password("admin123"), ..., True)
Admin ==
    [id |-> 1, username |-> "admin", email |-> "admin@sistema.com",
     senha_hash |-> hash_password("admin123"), ativo |-> TRUE, ultimo_login |-> 0]

\* the table after init_database and n calls of criar_usuario
UsuariosSemeados(n) ==
    {Admin} \cup {[id |-> i, username |-> Nomes[i], email |-> Emails[i],
                   senha_hash |-> hash_password("senha"), ativo |-> TRUE,
                   ultimo_login |-> 0] : i \in 2..(n + 1)}

\* usuarios without its UNIQUE constraints
ViolaUniqueUsuarioAusente(username, endereco, id) == FALSE

\* email VARCHAR(200) UNIQUE NOT NULL, username VARCHAR(100) UNIQUE NOT NULL:
\* another row holds the username or the email
ViolaUniqueUsuario(username, endereco, id) ==
    \E r \in usuarios : r.id # id /\ (r.username = username \/ r.email = endereco)

\* the call of session p on usuarios starts
Chamar(p, nome, arg) ==
    /\ pc[p] = "idle"
    /\ chamadas < MaxChamadas
    /\ chamadas' = chamadas + 1
    /\ funcao' = [funcao EXCEPT ![p] = nome]
    /\ uarg' = [uarg EXCEPT ![p] = arg]

\* def autenticar_usuario(username, senha): SELECT ... FROM usuarios WHERE
\* username = %s AND ativo = TRUE; "if u and verificar_senha(senha,
\* u["senha_hash"])", else return None
AutenticarUsuario(p) ==
    /\ \E nome \in {Nomes[1], Nomes[2]}, senha \in Senhas :
          LET achados == {r \in usuarios : r.username = nome /\ r.ativo}
              lido == IF achados = {} THEN SemUsuario ELSE CHOOSE r \in achados : TRUE
          IN  /\ Chamar(p, "autenticar_usuario",
                        [SemUarg EXCEPT !.username = nome, !.senha = senha])
              /\ IF achados # {} /\ verificar_senha(senha, lido.senha_hash)
                 THEN /\ u' = [u EXCEPT ![p] = lido]
                      /\ pc' = [pc EXCEPT ![p] = "a_login"]
                      /\ UNCHANGED <<conn, result>>
                 ELSE /\ Sair(p, None)
                      /\ UNCHANGED u
    /\ UNCHANGED <<vars_demandas, email, usuarios, usuarios_id_seq, commitou>>

\* UPDATE usuarios SET ultimo_login = CURRENT_TIMESTAMP WHERE id = u["id"];
\* conn.commit(); return u
RegistrarLogin(p) ==
    /\ pc[p] = "a_login"
    /\ usuarios' = {IF r.id = u[p].id THEN [r EXCEPT !.ultimo_login = agora] ELSE r :
                       r \in usuarios}
    /\ commitou' = [commitou EXCEPT ![p] = TRUE]
    /\ Sair(p, [tipo |-> "usuario", usuario |-> u[p]])
    /\ UNCHANGED <<vars_demandas, email, funcao, chamadas, usuarios_id_seq, uarg, u>>

\* the dicts criar_usuario is called with
DadosCriarUsuario ==
    {[username |-> nome, email |-> endereco, senha |-> "senha"] :
        nome \in {Nomes[1], Nomes[2]}, endereco \in {Emails[1], Emails[2]}}

\* def criar_usuario(dados_usuario): SELECT COUNT(*) FROM usuarios WHERE
\* username = %s OR email = %s; "if cur.fetchone()[0] > 0: return False, ..."
CriarUsuario(p) ==
    /\ \E d \in DadosCriarUsuario :
          /\ Chamar(p, "criar_usuario", [SemUarg EXCEPT !.dados = d])
          /\ IF \E r \in usuarios : r.username = d.username \/ r.email = d.email
             THEN Sair(p, Tupla(FALSE, "Username ou email já cadastrado."))
             ELSE /\ pc' = [pc EXCEPT ![p] = "c_insert"]
                  /\ UNCHANGED <<conn, result>>
    /\ UNCHANGED <<vars_demandas, email, usuarios, usuarios_id_seq, u, commitou>>

\* INSERT INTO usuarios (..., ativo) VALUES (..., True); conn.commit(); return
\* True, ...  A unique violation leaves through "except Exception".
InserirUsuario(p) ==
    LET d == uarg[p].dados
        id == usuarios_id_seq + 1
        linha == [id |-> id, username |-> d.username, email |-> d.email,
                  senha_hash |-> hash_password(d.senha), ativo |-> TRUE,
                  ultimo_login |-> 0]
    IN  /\ pc[p] = "c_insert"
        /\ IF ViolaUniqueUsuario(d.username, d.email, 0)
           THEN /\ Sair(p, Tupla(FALSE, "Erro criar usuário"))
                /\ UNCHANGED <<usuarios, usuarios_id_seq, commitou>>
           ELSE /\ usuarios' = usuarios \cup {linha}
                /\ usuarios_id_seq' = id
                /\ commitou' = [commitou EXCEPT ![p] = TRUE]
                /\ Sair(p, Tupla(TRUE, "Usuário criado com sucesso."))
        /\ UNCHANGED <<vars_demandas, email, funcao, chamadas, uarg, u>>

\* the dicts atualizar_usuario is called with
DadosAtualizarUsuario ==
    {<<>>, [ativo |-> FALSE], [ativo |-> TRUE], [username |-> Nomes[1]],
     [email |-> Emails[2]], [senha |-> "admin123"]}

\* the ids a caller may pass: a stored user, or one that never existed
UsuariosAlvo == {r.id : r \in usuarios} \cup {usuarios_id_seq + 1}

\* UPDATE usuarios SET <campos>: "senha" is written to senha_hash, hashed,
\* every other key to the column of its name
EscreverUsuario(r, d) ==
    [r EXCEPT
        !.username = IF "username" \in DOMAIN d THEN d.username ELSE @,
        !.email = IF "email" \in DOMAIN d THEN d.email ELSE @,
        !.ativo = IF "ativo" \in DOMAIN d THEN d.ativo ELSE @,
        !.senha_hash = IF "senha" \in DOMAIN d THEN hash_password(d.senha) ELSE @]

\* def atualizar_usuario(usuario_id, dados_atualizados): the loop that fills
\* campos; "if not campos: return False, ..."; the UPDATE; conn.commit()
AtualizarUsuario(p) ==
    /\ \E id \in UsuariosAlvo, d \in DadosAtualizarUsuario :
          LET novas == {IF r.id = id THEN EscreverUsuario(r, d) ELSE r : r \in usuarios}
          IN  /\ Chamar(p, "atualizar_usuario",
                        [SemUarg EXCEPT !.usuario_id = id, !.dados = d])
              /\ IF DOMAIN d = {}
                 THEN /\ Sair(p, Tupla(FALSE, "Nada pra atualizar."))
                      /\ UNCHANGED <<usuarios, commitou>>
                 ELSE IF \E r \in novas :
                            r.id = id /\ ViolaUniqueUsuario(r.username, r.email, id)
                      THEN /\ Sair(p, Tupla(FALSE, "Erro atualizar usuário"))
                           /\ UNCHANGED <<usuarios, commitou>>
                      ELSE /\ usuarios' = novas
                           /\ commitou' = [commitou EXCEPT ![p] = TRUE]
                           /\ Sair(p, Tupla(TRUE, "Usuário atualizado."))
    /\ UNCHANGED <<vars_demandas, email, usuarios_id_seq, u>>

\* def desativar_usuario(usuario_id): "if usuario_id == 1: return False, ...";
\* UPDATE usuarios SET ativo = FALSE WHERE id = %s; conn.commit()
DesativarUsuario(p) ==
    /\ \E id \in UsuariosAlvo :
          /\ Chamar(p, "desativar_usuario", [SemUarg EXCEPT !.usuario_id = id])
          /\ IF id = 1
             THEN /\ Sair(p, Tupla(FALSE, "Não dá pra desativar o admin principal."))
                  /\ UNCHANGED <<usuarios, commitou>>
             ELSE /\ usuarios' = {IF r.id = id THEN [r EXCEPT !.ativo = FALSE] ELSE r :
                                     r \in usuarios}
                  /\ commitou' = [commitou EXCEPT ![p] = TRUE]
                  /\ Sair(p, Tupla(TRUE, "Usuário desativado."))
    /\ UNCHANGED <<vars_demandas, email, usuarios_id_seq, u>>

---------------------------------------------------------------------------

\* the tables after n calls of adicionar_demanda, one after the other, on
\* day 1: the database a session finds when it starts
Semeadas(n) ==
    {[id |-> i, codigo |-> [prefixo |-> 1, seq |-> i], quantidade |-> 1,
      status |-> StatusDefault, departamento |-> "TI", prioridade |-> "Alta",
      data_atualizacao |-> 1] : i \in 1..n}

HistoricoSemeadas(n) ==
    {[id |-> i, demanda_id |-> i, acao |-> "CRIAÇÃO",
      detalhes |-> [SemDados EXCEPT !.quantidade = 1, !.departamento = "TI",
                                    !.prioridade = "Alta"]] : i \in 1..n}

\* no session has called anything yet
InitChamadas ==
    /\ pc = [p \in Procs |-> "idle"]
    /\ funcao = [p \in Procs |-> ""]
    /\ dados = [p \in Procs |-> SemDados]
    /\ demanda_id = [p \in Procs |-> 0]
    /\ tentativa = [p \in Procs |-> 0]
    /\ codigo = [p \in Procs |-> SemCodigo]
    /\ nova_id = [p \in Procs |-> 0]
    /\ demanda_antiga = [p \in Procs |-> SemLinha]
    /\ campos = [p \in Procs |-> {}]
    /\ conn = [p \in Procs |-> SemConn]
    /\ commitou = [p \in Procs |-> FALSE]
    /\ result = [p \in Procs |-> SemResult]
    /\ chamadas = 0
    /\ consulta = SemConsulta
    /\ uarg = [p \in Procs |-> SemUarg]
    /\ u = [p \in Procs |-> SemUsuario]
    /\ inicio = [p \in Procs |-> {}]

\* and nothing is being sent
InitSessoes == InitChamadas /\ email = SemEmail /\ excluida = SemExcluida

\* usuarios after init_database and n calls of criar_usuario
InitUsuarios(n) ==
    /\ usuarios = UsuariosSemeados(n)
    /\ usuarios_id_seq = n + 1

Init ==
    /\ \E n \in 0..MaxSemeadas :
          /\ demandas = Semeadas(n)
          /\ historico_demandas = HistoricoSemeadas(n)
          /\ demandas_id_seq = n
          /\ historico_id_seq = n
          /\ ultima_seq = [d \in Dias |-> IF d = 1 THEN n ELSE 0]
    /\ agora \in Dias
    /\ InitSessoes
    /\ InitUsuarios(0)

Next ==
    \/ \E p \in Procs :
          \/ AdicionarDemanda(p)
          \/ GerarCodigo(p)
          \/ InserirDemanda(p)
          \/ CommitCriacao(p)
          \/ Notificar(p)
          \/ AtualizarDemanda(p)
          \/ ExecutarUpdate(p)
          \/ CommitAtualizacao(p)
          \/ ExcluirDemanda(p)
          \/ CommitExclusao(p)
          \/ AppExcluirDemanda(p)
          \/ AppInserirHistoricoExclusao(p)
          \/ AppExecutarDelete(p)
          \/ AppDeadlock(p)
          \/ Retornar(p)

Spec == Init /\ [][Next]_vars


---------------------------------------------------------------------------
(* A run of creations only: two sessions call adicionar_demanda again and
   again on an empty table, so that one of them can lose the race for the
   code in every turn of its loop *)

InitColisao ==
    /\ demandas = {}
    /\ historico_demandas = {}
    /\ demandas_id_seq = 0
    /\ historico_id_seq = 0
    /\ ultima_seq = [d \in Dias |-> 0]
    /\ agora \in Dias
    /\ InitSessoes
    /\ InitUsuarios(0)

NextColisao ==
    \/ \E p \in Procs :
          \/ AdicionarDemandaEmSerie(p)
          \/ GerarCodigo(p)
          \/ InserirDemanda(p)
          \/ CommitCriacao(p)
          \/ Notificar(p)
          \/ Retornar(p)

SpecColisao == InitColisao /\ [][NextColisao]_vars

---------------------------------------------------------------------------
(* A database error: psycopg2.connect, cur.execute or conn.commit raises
   (the server is gone, a timeout).  The exception leaves the "with" blocks,
   get_db_connection closes the connection in its "finally", and the "except
   Exception" of the function returns the failure value. *)

\* the functions of the demand repository
Operacoes ==
    {"carregar_demandas", "carregar_historico_demanda", "adicionar_demanda",
     "atualizar_demanda", "excluir_demanda", "obter_estatisticas"}

\* the statements of a repository in which errors also hit the notification
PontosDeErroComEmail == {"gerar", "inserir", "commit", "u_update", "u_commit", "d_commit", "email"}

\* where a call stands before a statement on its connection
PontosDeErro == {"gerar", "inserir", "commit", "u_update", "u_commit", "d_commit"}

\* return []
ListaVazia == [tipo |-> "list", valor |-> <<>>]

\* return {}
DictVazio == [tipo |-> "dict", valor |-> <<>>]

\* the "return" of the "except Exception" of function f
ValorDeFalha(f) ==
    CASE f = "adicionar_demanda" -> None
      [] f \in {"atualizar_demanda", "excluir_demanda"} -> Bool(FALSE)
      [] f \in {"carregar_demandas", "carregar_historico_demanda"} -> ListaVazia
      [] OTHER -> DictVazio

\* a statement of the call of session p raises: of a call that starts (the
\* connection, SET TIME ZONE, the first SELECT), or of one under way
ErroDeBanco(p) ==
    /\ \/ /\ pc[p] = "idle"
          /\ chamadas < MaxChamadas
          /\ chamadas' = chamadas + 1
          /\ \E f \in Operacoes : funcao' = [funcao EXCEPT ![p] = f]
       \/ /\ pc[p] \in PontosDeErro
          /\ UNCHANGED <<funcao, chamadas>>
    /\ pc' = [pc EXCEPT ![p] = "except"]
    /\ conn' = [conn EXCEPT ![p] = Rollback]
    /\ UNCHANGED <<vars_consulta, vars_usuarios, inicio, email>>
    /\ UNCHANGED <<demandas, historico_demandas, demandas_id_seq, historico_id_seq,
                   agora, dados, demanda_id, tentativa, codigo, nova_id,
                   demanda_antiga, campos, commitou, result, ultima_seq, excluida>>

\* except Exception as e: st.error(...); return None / False / [] / {}
TratarErro(p) ==
    /\ pc[p] = "except"
    /\ Sair(p, ValorDeFalha(funcao[p]))
    /\ UNCHANGED <<vars_consulta, vars_usuarios, inicio, email>>
    /\ UNCHANGED <<funcao, demandas, historico_demandas, demandas_id_seq, historico_id_seq,
                   agora, dados, demanda_id, tentativa, codigo, nova_id,
                   demanda_antiga, campos, commitou, ultima_seq, excluida, chamadas>>

\* day 1, on the table that holds the demands created before
InitErros ==
    /\ demandas = Semeadas(MaxSemeadas)
    /\ historico_demandas = HistoricoSemeadas(MaxSemeadas)
    /\ demandas_id_seq = MaxSemeadas
    /\ historico_id_seq = MaxSemeadas
    /\ ultima_seq = [d \in Dias |-> IF d = 1 THEN MaxSemeadas ELSE 0]
    /\ agora = 1
    /\ InitSessoes
    /\ InitUsuarios(0)

NextErros ==
    \/ \E p \in Procs :
          \/ AdicionarDemanda(p)
          \/ GerarCodigo(p)
          \/ InserirDemanda(p)
          \/ CommitCriacao(p)
          \/ Notificar(p)
          \/ AtualizarDemanda(p)
          \/ ExecutarUpdate(p)
          \/ CommitAtualizacao(p)
          \/ ExcluirDemanda(p)
          \/ CommitExclusao(p)
          \/ ErroDeBanco(p)
          \/ TratarErro(p)
          \/ Retornar(p)

SpecErros == InitErros /\ [][NextErros]_vars

---------------------------------------------------------------------------
(* Both implementations of adicionar_demanda, next to excluir_demanda *)

InitApp ==
    /\ demandas = Semeadas(MaxSemeadas)
    /\ historico_demandas = HistoricoSemeadas(MaxSemeadas)
    /\ demandas_id_seq = MaxSemeadas
    /\ historico_id_seq = MaxSemeadas
    /\ ultima_seq = [d \in Dias |-> IF d = 1 THEN MaxSemeadas ELSE 0]
    /\ agora \in Dias
    /\ InitSessoes
    /\ InitUsuarios(0)

NextApp ==
    \/ \E p \in Procs :
          \/ AdicionarDemanda(p)
          \/ AppAdicionarDemanda(p)
          \/ GerarCodigo(p)
          \/ InserirDemanda(p)
          \/ CommitCriacao(p)
          \/ Notificar(p)
          \/ AppCommitCriacao(p)
          \/ AppBuscarCriada(p)
          \/ ExcluirDemanda(p)
          \/ CommitExclusao(p)
          \/ Retornar(p)

SpecApp == InitApp /\ [][NextApp]_vars

---------------------------------------------------------------------------
(* Creations and deletions on a table that day 1 filled: n demands were
   created, and one of them (falta), not the last, may have been deleted *)

InitReuso ==
    /\ \E n \in 1..MaxNoInicio :
          \E falta \in 0..(n - 1) :
              /\ demandas = {d \in Semeadas(n) : d.id # falta}
              /\ historico_demandas = {h \in HistoricoSemeadas(n) : h.demanda_id # falta}
              /\ demandas_id_seq = n
              /\ historico_id_seq = n
              /\ ultima_seq = [d \in Dias |-> IF d = 1 /\ falta = 0 THEN n ELSE 0]
              /\ excluida = IF falta = 0
                            THEN SemExcluida
                            ELSE [SemExcluida EXCEPT
                                     !.codigo = [prefixo |-> 1, seq |-> falta]]
    /\ agora \in Dias
    /\ InitChamadas
    /\ email = SemEmail
    /\ InitUsuarios(0)

NextReuso ==
    \/ \E p \in Procs :
          \/ AdicionarDemanda(p)
          \/ GerarCodigo(p)
          \/ InserirDemanda(p)
          \/ CommitCriacao(p)
          \/ Notificar(p)
          \/ ExcluirDemanda(p)
          \/ CommitExclusao(p)
          \/ Retornar(p)

SpecReuso == InitReuso /\ [][NextReuso]_vars

---------------------------------------------------------------------------
(* The dispatches of enviar_email_nova_demanda, under every configuration *)

InitEmail ==
    /\ demandas = {}
    /\ historico_demandas = {}
    /\ demandas_id_seq = 0
    /\ historico_id_seq = 0
    /\ ultima_seq = [d \in Dias |-> 0]
    /\ agora = 1
    /\ InitChamadas
    /\ InitUsuarios(0)
    /\ excluida = SemExcluida
    /\ \E cfg \in ConfigsEmail : email = [SemEmail EXCEPT !.cfg = cfg]

NextEmail ==
    \/ EnviarEmailNovaDemanda
    \/ EnviarEmailBrevoApi
    \/ EnviarEmailSmtp
    \/ RetornarEmail

SpecEmail == InitEmail /\ [][NextEmail]_vars

---------------------------------------------------------------------------
(* A run of creations on a table that holds the demands of a busy day 1 *)

InitCodigo ==
    /\ \E n \in {0, 9, MaxNoDia} :
          /\ demandas = Semeadas(n)
          /\ historico_demandas = HistoricoSemeadas(n)
          /\ demandas_id_seq = n
          /\ historico_id_seq = n
          /\ ultima_seq = [d \in Dias |-> IF d = 1 THEN n ELSE 0]
    /\ agora \in Dias
    /\ InitSessoes
    /\ InitUsuarios(0)

NextCodigo ==
    \/ \E p \in Procs :
          \/ AdicionarDemanda(p)
          \/ GerarCodigo(p)
          \/ InserirDemanda(p)
          \/ CommitCriacao(p)
          \/ Notificar(p)
          \/ Retornar(p)

SpecCodigo == InitCodigo /\ [][NextCodigo]_vars

---------------------------------------------------------------------------
(* Queries: carregar_demandas and obter_estatisticas of data_access.py and
   carregar_demandas of app.py, on a table that holds demands of two
   departments, while one demand is created *)

StatusDe == <<"Pendente", "Concluída", "Em andamento", "Cancelada">>

DepartamentoDe == <<"TI", "RH", "TI", "RH">>

PrioridadeDe == <<"Alta", "Baixa", "Baixa", "Alta">>

\* the tables after n demands were created on day 1, the second and the
\* later ones moved to another status
Listadas(n) ==
    {[id |-> i, codigo |-> [prefixo |-> 1, seq |-> i], quantidade |-> i,
      status |-> StatusDe[i], departamento |-> DepartamentoDe[i],
      prioridade |-> PrioridadeDe[i], data_atualizacao |-> 1] : i \in 1..n}

HistoricoListadas(n) ==
    {[id |-> i, demanda_id |-> i, acao |-> "CRIAÇÃO",
      detalhes |-> [SemDados EXCEPT !.quantidade = i,
                                    !.departamento = DepartamentoDe[i],
                                    !.prioridade = PrioridadeDe[i]]] : i \in 1..n}

InitConsulta ==
    /\ \E n \in 0..MaxListadas :
          /\ demandas = Listadas(n)
          /\ historico_demandas = HistoricoListadas(n)
          /\ demandas_id_seq = n
          /\ historico_id_seq = n
          /\ ultima_seq = [d \in Dias |-> IF d = 1 THEN n ELSE 0]
    /\ agora \in Dias
    /\ InitSessoes
    /\ InitUsuarios(0)

\* the one creation of the run never loses the race for its code: its loop
\* has no second turn
NextConsulta ==
    \/ \E p \in Procs :
          \/ AdicionarDemandaUmaVez(p)
          \/ InserirDemanda(p)
          \/ CommitCriacao(p)
          \/ Notificar(p)
          \/ Retornar(p)
    \/ CarregarDemandas
    \/ AppCarregarDemandas
    \/ ObterEstatisticas

SpecConsulta == InitConsulta /\ [][NextConsulta]_vars

---------------------------------------------------------------------------
(* The calls on usuarios, by concurrent sessions, on a table that holds the
   admin and the users created before *)

InitContas ==
    /\ demandas = {}
    /\ historico_demandas = {}
    /\ demandas_id_seq = 0
    /\ historico_id_seq = 0
    /\ ultima_seq = [d \in Dias |-> 0]
    /\ agora \in Dias
    /\ InitSessoes
    /\ \E n \in 0..MaxSemeadas : InitUsuarios(n)

NextContas ==
    \/ \E p \in Procs :
          \/ AutenticarUsuario(p)
          \/ RegistrarLogin(p)
          \/ CriarUsuario(p)
          \/ InserirUsuario(p)
          \/ AtualizarUsuario(p)
          \/ DesativarUsuario(p)
          \/ Retornar(p)

SpecContas == InitContas /\ [][NextContas]_vars

---------------------------------------------------------------------------
(* Properties *)

\* the two tables are left as they are by the step
TabelasInalteradas == UNCHANGED <<demandas, historico_demandas>>

\* C1: no two stored demands have the same codigo, whatever the interleaving
\* of the calls of adicionar_demanda (and of the other calls)
C1_CodigoUnico ==
    \A d \in demandas : \A e \in demandas : d.codigo = e.codigo => d.id = e.id

\* a call of adicionar_demanda lost the race for a code, generated another
\* one and stored its demand next to the one that won
C1_Colisao ==
    \E p \in Procs :
        /\ funcao[p] = "adicionar_demanda"
        /\ pc[p] = "fim"
        /\ tentativa[p] >= 1
        /\ result[p].tipo = "dict"
        /\ \E d \in demandas : \E e \in demandas :
              /\ d.id = result[p].id
              /\ e.id # d.id
              /\ e.codigo.prefixo = d.codigo.prefixo

C2_CriacaoDeCadaDemanda ==
    \A d \in demandas :
        \E h \in historico_demandas : h.demanda_id = d.id /\ h.acao = "CRIAÇÃO"

C2_PassoDeCriacao ==
    \A p \in Procs :
        /\ (pc[p] = "commit" /\ pc'[p] = "email") =>
              \E d \in demandas' : \E h \in historico_demandas' :
                  /\ d \notin demandas
                  /\ demandas' = demandas \cup {d}
                  /\ d.id = nova_id[p]
                  /\ d.codigo = codigo[p]
                  /\ h \notin historico_demandas
                  /\ historico_demandas' = historico_demandas \cup {h}
                  /\ h.demanda_id = d.id
                  /\ h.acao = "CRIAÇÃO"
                  /\ h.detalhes = dados[p]
        /\ (funcao'[p] = "adicionar_demanda" /\ pc'[p] # pc[p] /\ pc[p] # "commit") =>
              TabelasInalteradas

\* C2: every stored demand has a history row with acao "CRIAÇÃO"; the commit
\* of adicionar_demanda adds exactly one demand row and exactly one "CRIAÇÃO"
\* row that references it, both in the one step, and no other step of the
\* call touches the tables
C2_CriacaoAtomica == [](C2_CriacaoDeCadaDemanda) /\ [][C2_PassoDeCriacao]_vars

\* a call of adicionar_demanda has committed: its demand and the "CRIAÇÃO"
\* row of the demand are stored
C2_CriacaoFeita ==
    \E p \in Procs :
        /\ funcao[p] = "adicionar_demanda"
        /\ commitou[p]
        /\ \E d \in demandas : d.id = nova_id[p]
        /\ \E h \in historico_demandas :
              h.demanda_id = nova_id[p] /\ h.acao = "CRIAÇÃO"

\* the keys of the dict whose value differs from the row the call loaded
C3_Alterados(p) ==
    {c \in Colunas : /\ Valor(dados[p], c) # Valor(SemDados, c)
                     /\ Valor(dados[p], c) # Valor(demanda_antiga[p], c)}

C3_PassoDeAtualizacao ==
    \A p \in Procs :
        /\ (pc[p] = "u_commit" /\ pc'[p] = "fim") =>
              \E antes \in demandas : \E depois \in demandas' :
              \E h \in historico_demandas' :
                  /\ antes.id = demanda_id[p]
                  /\ depois.id = demanda_id[p]
                  /\ demandas' = (demandas \ {antes}) \cup {depois}
                  /\ C3_Alterados(p) # {}
                  /\ \A c \in C3_Alterados(p) : Valor(depois, c) = Valor(dados[p], c)
                  /\ \A c \in Colunas \ C3_Alterados(p) : Valor(depois, c) = Valor(antes, c)
                  /\ depois.data_atualizacao = agora
                  /\ h \notin historico_demandas
                  /\ historico_demandas' = historico_demandas \cup {h}
                  /\ h.acao = "ATUALIZAÇÃO"
                  /\ h.demanda_id = demanda_id[p]
                  /\ \A c \in Colunas :
                        IF c \in C3_Alterados(p)
                        THEN /\ Valor(h.detalhes.antigo, c) = Valor(demanda_antiga[p], c)
                             /\ Valor(h.detalhes.novo, c) = Valor(dados[p], c)
                        ELSE /\ Valor(h.detalhes.antigo, c) = Valor(SemDados, c)
                             /\ Valor(h.detalhes.novo, c) = Valor(SemDados, c)
                  /\ result'[p] = Bool(TRUE)
        /\ (funcao'[p] = "atualizar_demanda" /\ pc'[p] # pc[p] /\ pc[p] # "u_commit") =>
              TabelasInalteradas

\* C3: the commit of an atualizar_demanda that changes at least one field
\* (a key of the dict whose value differs from the row the call loaded) adds
\* exactly one "ATUALIZAÇÃO" row for the demand, whose "antigo" holds the
\* loaded values and whose "novo" holds the new values of exactly those
\* fields; the same step writes those fields and data_atualizacao and
\* nothing else; no other step of the call touches the tables
C3_AtualizacaoRegistrada == [][C3_PassoDeAtualizacao]_vars

\* an atualizar_demanda has committed a dict of which one key changed the
\* row and another held the stored value
C3_AtualizacaoParcial ==
    \E p \in Procs :
        /\ funcao[p] = "atualizar_demanda"
        /\ pc[p] = "fim"
        /\ commitou[p]
        /\ result[p] = Bool(TRUE)
        /\ campos[p] # {}
        /\ campos[p] # Chaves(dados[p])
        /\ \E h \in historico_demandas :
              h.demanda_id = demanda_id[p] /\ h.acao = "ATUALIZAÇÃO"

\* C4: the commit of an excluir_demanda that deletes a stored demand leaves
\* exactly one "EXCLUSÃO" history row of that demand
C4_ExclusaoRegistrada ==
    [][\A p \in Procs :
          (pc[p] = "d_commit" /\ pc'[p] = "fim" /\ conn[p].del
             /\ result'[p] = Bool(TRUE)) =>
              Cardinality({h \in historico_demandas' :
                              h.demanda_id = demanda_id[p] /\ h.acao = "EXCLUSÃO"}) = 1]_vars

\* C5: adicionar_demanda makes at most 8 attempts; a unique violation rolls
\* the transaction back and the next attempt runs with a code above the one
\* that collided; a call that returns None has committed nothing, and a call
\* with a valid quantity returns None only when all 8 attempts collided
C5_TentativasLimitadas ==
    \A p \in Procs :
        /\ tentativa[p] <= 8
        /\ pc[p] \in {"gerar", "inserir", "commit"} => tentativa[p] < 8
        /\ pc[p] = "gerar" => conn[p] = SemConn
        /\ pc[p] = "inserir" => codigo[p].seq >= tentativa[p] + 1
        /\ (pc[p] = "fim" /\ result[p] = None) =>
              /\ ~commitou[p]
              /\ conn[p] = SemConn
              /\ \A d \in demandas : d.id # nova_id[p]
              /\ dados[p].quantidade > 0 => tentativa[p] = 8

\* a call of adicionar_demanda with a valid quantity collided in all of its
\* 8 attempts and returned None
C5_Esgotada ==
    \E p \in Procs :
        /\ pc[p] = "fim"
        /\ result[p] = None
        /\ dados[p].quantidade > 0
        /\ tentativa[p] = 8

C7_QuantidadeInvalida ==
    [][\A p \in Procs :
          (funcao'[p] = "adicionar_demanda" /\ dados'[p].quantidade <= 0
             /\ pc'[p] # pc[p]) =>
              /\ TabelasInalteradas
              /\ pc'[p] \in {"inserir", "fim"}
              /\ pc'[p] = "fim" => (result'[p] = None /\ ~commitou'[p])]_vars

\* an adicionar_demanda called with quantidade 0 has returned None
C7_Recusada ==
    \E p \in Procs :
        /\ funcao[p] = "adicionar_demanda"
        /\ pc[p] = "fim"
        /\ dados[p].quantidade <= 0
        /\ result[p] = None

\* C8: no step changes the codigo of a stored demand
C8_CodigoImutavel ==
    [][\A d \in demandas : \A e \in demandas' : e.id = d.id => e.codigo = d.codigo]_vars

C9_Referencias ==
    \A h \in historico_demandas : \E d \in demandas : d.id = h.demanda_id

C9_PassoDeExclusao ==
    \A p \in Procs :
        (pc[p] = "d_commit" /\ pc'[p] = "fim" /\ conn[p].del) =>
            /\ result'[p] = Bool(TRUE)
            /\ \A d \in demandas' : d.id # demanda_id[p]
            /\ \A h \in historico_demandas' : h.demanda_id # demanda_id[p]

\* C9: in every state every history row references a stored demand; the
\* commit of an excluir_demanda that deletes a stored demand leaves no
\* history row of that demand
C9_HistoricoSemOrfaos == [](C9_Referencias) /\ [][C9_PassoDeExclusao]_vars

\* an excluir_demanda has deleted a demand for which the other session had
\* committed an update, and with it a history row
C9_ExclusaoComHistorico ==
    \E p \in Procs : \E q \in Procs \ {p} :
        /\ funcao[p] \in {"excluir_demanda", "app.excluir_demanda"}
        /\ pc[p] = "fim"
        /\ result[p] = Bool(TRUE)
        /\ funcao[q] = "atualizar_demanda"
        /\ pc[q] = "fim"
        /\ commitou[q]
        /\ demanda_id[q] = demanda_id[p]
        /\ \A d \in demandas : d.id # demanda_id[p]

\* C10: a creation that commits on a day on which an earlier creation
\* committed, with no deletion since, has a sequence number above the one of
\* that earlier creation
C10_SequenciaCrescente ==
    [][\A p \in Procs :
          (pc[p] = "commit" /\ pc'[p] = "email" /\ ultima_seq[codigo[p].prefixo] > 0) =>
              codigo[p].seq > ultima_seq[codigo[p].prefixo]]_vars

\* the sequence numbers of the stored demands whose code starts with the
\* six characters of today's date
C11_SequenciasDeHoje ==
    {d.codigo.seq : d \in {x \in demandas :
        SubSeq(Texto(x.codigo), 1, 6) = Strftime(Calendario(agora))}}

C11_Esperado ==
    Strftime(Calendario(agora)) \o <<"-">> \o
        Formato02d(1 + (IF C11_SequenciasDeHoje = {} THEN 0
                        ELSE Setmax(C11_SequenciasDeHoje)))

\* C11: the code gerar_codigo_demanda returns is today's date as DDMMYY, a
\* hyphen, and one more than the highest sequence number of the stored
\* demands with that prefix (01 when there is none); the demands of another
\* day do not count
C11_CodigoGerado ==
    [][\A p \in Procs :
          (pc[p] \in {"idle", "gerar"} /\ pc'[p] = "inserir") =>
              Texto(codigo'[p]) = C11_Esperado]_vars

\* a code 010125-01 was generated on day 2 while nine demands of day 1,
\* 311224-01 to 311224-09, were stored
C11_OutroDia ==
    \E p \in Procs :
        /\ pc[p] = "inserir"
        /\ tentativa[p] = 0
        /\ Texto(codigo[p]) = <<"0", "1", "0", "1", "2", "5", "-", "0", "1">>
        /\ \E d \in demandas :
              Texto(d.codigo) = <<"3", "1", "1", "2", "2", "4", "-", "0", "9">>

\* C12: every code adicionar_demanda returns is DDMMYY-NN, its sequence part
\* of exactly two digits, however many demands the day has
C12_DoisDigitos ==
    \A p \in Procs :
        (funcao[p] = "adicionar_demanda" /\ result[p].tipo = "dict") =>
            /\ Len(Texto(result[p].codigo)) = 9
            /\ Len(SplitPart2(Texto(result[p].codigo))) = 2

C13_QuantidadePositiva == \A d \in demandas : d.quantidade > 0

C13_PassoDeAtualizacao ==
    \A p \in Procs :
        (funcao'[p] = "atualizar_demanda" /\ "quantidade" \in Chaves(dados'[p])
           /\ dados'[p].quantidade <= 0 /\ pc'[p] # pc[p]) =>
            /\ TabelasInalteradas
            /\ pc'[p] \in {"u_update", "fim"}
            /\ pc'[p] = "fim" => (result'[p] = Bool(FALSE) /\ ~commitou'[p])

\* C13: every stored demand has quantidade > 0, and an atualizar_demanda
\* whose dict holds a quantidade that is not positive returns False and
\* leaves the demand and the history as they were
C13_QuantidadeValida == [](C13_QuantidadePositiva) /\ [][C13_PassoDeAtualizacao]_vars

\* an atualizar_demanda of a stored demand with quantidade 0 has returned
\* False, refused by the CHECK of the table
C13_AtualizacaoRecusada ==
    \E p \in Procs :
        /\ funcao[p] = "atualizar_demanda"
        /\ pc[p] = "fim"
        /\ dados[p].quantidade = 0
        /\ "quantidade" \in campos[p]
        /\ Existe(demanda_id[p])
        /\ result[p] = Bool(FALSE)

\* the four status values of the forms
StatusValidos == {"Pendente", "Em andamento", "Concluída", "Cancelada"}

\* C14: the status of every stored demand is Pendente, Em andamento,
\* Concluída or Cancelada; a new demand is stored as Pendente and no create
\* or update stores another value
C14_StatusValido == \A d \in demandas : d.status \in StatusValidos

\* demand d satisfies every filter that filtros f supplies
C15_Satisfaz(d, f) ==
    /\ f.status # {} => d.status \in f.status
    /\ f.departamento # {} => d.departamento \in f.departamento
    /\ f.prioridade # {} => d.prioridade \in f.prioridade
    /\ Len(f.codigo) # 0 =>
          Texto(d.codigo) \in {f.codigo, SubSeq(f.codigo, 1, 6) \o <<"-">> \o
                                             SubSeq(f.codigo, 7, Len(f.codigo))}

\* C15: carregar_demandas of data_access.py returns exactly the stored
\* demands that satisfy every filter it is given
C15_ListagemExata ==
    [][(consulta' # consulta /\ consulta'.funcao = "carregar_demandas") =>
          consulta'.resultado = {d \in demandas : C15_Satisfaz(d, consulta'.filtros)}]_vars

\* C16: a listing with a department filter holds only demands of a
\* department of the filter
C16_SoDoDepartamento ==
    (consulta.funcao \in {"carregar_demandas", "app.carregar_demandas"}
       /\ consulta.filtros.departamento # {}) =>
        \A d \in consulta.resultado : d.departamento \in consulta.filtros.departamento

C17_PassoDeConsulta ==
    (consulta' # consulta /\ consulta'.funcao = "obter_estatisticas") =>
        LET listadas == carregar_demandas(demandas, consulta'.filtros)
        IN  /\ consulta'.resultado.total = Cardinality(listadas)
            /\ consulta'.resultado.total_itens = SomaQuantidade(listadas)

C17_PassoDeCriacao ==
    \A p \in Procs :
        (pc[p] = "commit" /\ pc'[p] = "email") =>
            LET antes == obter_estatisticas(demandas, SemFiltros)
                depois == obter_estatisticas(demandas', SemFiltros)
            IN  /\ depois.total = antes.total + 1
                /\ depois.total_itens = antes.total_itens + dados[p].quantidade

\* C17: the totals of obter_estatisticas(filtros) are the number and the sum
\* of the quantities of the rows carregar_demandas(filtros) returns, and the
\* commit of a new demand of quantity q raises the totals without filter by
\* 1 and by q
C17_Estatisticas == [][C17_PassoDeConsulta /\ C17_PassoDeCriacao]_vars

\* after a demand was created, the statistics of the Pendente demands were
\* read: they count fewer demands than the table holds
C17_EstatisticasFiltradas ==
    /\ consulta.funcao = "obter_estatisticas"
    /\ consulta.filtros = [SemFiltros EXCEPT !.status = {"Pendente"}]
    /\ consulta.resultado.total = 2
    /\ consulta.resultado.total_itens = 2
    /\ Cardinality(demandas) = 3
    /\ \E p \in Procs : funcao[p] = "adicionar_demanda" /\ commitou[p]

\* C18: the user of id 1 is active in every state, whatever calls of
\* criar_usuario, atualizar_usuario and desativar_usuario were made
C18_AdminAtivo == \A r \in usuarios : r.id = 1 => r.ativo

C19_SemDuplicados ==
    \A r \in usuarios : \A q \in usuarios :
        (r.username = q.username \/ r.email = q.email) => r.id = q.id

C19_PassoDeCriacao ==
    \A p \in Procs :
        (funcao'[p] = "criar_usuario" /\ pc[p] # "fim" /\ pc'[p] = "fim"
           /\ \E r \in usuarios : \/ r.username = uarg'[p].dados.username
                                   \/ r.email = uarg'[p].dados.email) =>
            /\ result'[p].tipo = "tuple"
            /\ ~result'[p].ok
            /\ usuarios' = usuarios

\* C19: no two users have the same username or the same email, whatever the
\* interleaving of criar_usuario and atualizar_usuario; a criar_usuario whose
\* username or email is stored returns (False, message) and inserts nothing
C19_UsuarioUnico == [](C19_SemDuplicados) /\ [][C19_PassoDeCriacao]_vars

\* two sessions created the same user at once: both passed the SELECT
\* COUNT(*), one inserted the row and the INSERT of the other was refused
C19_Corrida ==
    \E p \in Procs : \E q \in Procs \ {p} :
        /\ funcao[p] = "criar_usuario" /\ funcao[q] = "criar_usuario"
        /\ pc[p] = "fim" /\ pc[q] = "fim"
        /\ uarg[p].dados = uarg[q].dados
        /\ result[p] = Tupla(TRUE, "Usuário criado com sucesso.")
        /\ result[q] = Tupla(FALSE, "Erro criar usuário")

\* the stored user that username and senha authenticate
C20_Credenciais(r, a) ==
    /\ r.username = a.username
    /\ r.ativo
    /\ hash_password(a.senha) = r.senha_hash

C20_PassoDeAutenticacao ==
    \A p \in Procs :
        /\ (pc[p] = "idle" /\ funcao'[p] = "autenticar_usuario") =>
              /\ usuarios' = usuarios
              /\ IF \E r \in usuarios : C20_Credenciais(r, uarg'[p])
                 THEN pc'[p] = "a_login" /\ u'[p] \in usuarios
                        /\ C20_Credenciais(u'[p], uarg'[p])
                 ELSE pc'[p] = "fim" /\ result'[p] = None
        /\ (pc'[p] = "fim" /\ pc[p] # "fim" /\ result'[p].tipo = "usuario") =>
              /\ funcao[p] = "autenticar_usuario"
              /\ C20_Credenciais(result'[p].usuario, uarg[p])

C20_PassoDeLogin ==
    \A r \in usuarios : \A q \in usuarios' :
        (r.id = q.id /\ r.ultimo_login # q.ultimo_login) =>
            \E p \in Procs :
                /\ funcao[p] = "autenticar_usuario"
                /\ pc'[p] = "fim"
                /\ result'[p].tipo = "usuario"
                /\ result'[p].usuario.id = r.id

C20_PassoDeDesativacao ==
    \A p \in Procs :
        (funcao'[p] = "desativar_usuario" /\ pc[p] = "idle" /\ pc'[p] = "fim"
           /\ result'[p].ok) =>
            \A r \in usuarios' : r.id = uarg'[p].usuario_id => ~r.ativo

\* C20: autenticar_usuario returns a user only when the username is stored,
\* active and the hash of the password is the stored one, and returns None
\* otherwise; a user that desativar_usuario made inactive is not
\* authenticated; ultimo_login is written only by an authentication that
\* succeeds
C20_Autenticacao ==
    [][C20_PassoDeAutenticacao /\ C20_PassoDeLogin /\ C20_PassoDeDesativacao]_vars

\* a user was deactivated, and then the right password was refused
C20_DesativadoRecusado ==
    \E p \in Procs :
        /\ funcao[p] = "autenticar_usuario"
        /\ pc[p] = "fim"
        /\ result[p] = None
        /\ \E r \in usuarios :
              /\ r.username = uarg[p].username
              /\ ~r.ativo
              /\ hash_password(uarg[p].senha) = r.senha_hash
              /\ r.ultimo_login = 0

\* None, False, [] or {}: what function f gives its caller when it failed
C21_Falha(f) ==
    IF f = "adicionar_demanda" THEN [tipo |-> "None"]
    ELSE IF f \in {"atualizar_demanda", "excluir_demanda"}
         THEN [tipo |-> "bool", valor |-> FALSE]
    ELSE IF f = "obter_estatisticas" THEN [tipo |-> "dict", valor |-> <<>>]
    ELSE [tipo |-> "list", valor |-> <<>>]

\* C21: a database error inside an operation of the demand repository
\* raises nothing to the caller; the operation returns None, False, [] or
\* {}, and nothing the call wrote is committed
C21_ErroTratado ==
    [][\A p \in Procs :
          /\ (pc[p] # "except" /\ pc'[p] = "except") =>
                /\ TabelasInalteradas
                /\ ~commitou'[p]
                /\ conn'[p] = SemConn
          /\ (pc[p] = "except" /\ pc'[p] # "except") =>
                /\ pc'[p] = "fim"
                /\ result'[p] = C21_Falha(funcao'[p])
                /\ TabelasInalteradas
                /\ ~commitou'[p]]_vars

\* conn.commit() of an adicionar_demanda raised after the two INSERTs, and
\* the call returned None: the demand is not stored
C21_ErroNoCommit ==
    \E p \in Procs :
        /\ funcao[p] = "adicionar_demanda"
        /\ pc[p] = "fim"
        /\ result[p] = None
        /\ nova_id[p] # 0
        /\ ~Existe(nova_id[p])
        /\ ~commitou[p]

\* every provider the dispatch tried has failed, or none was tried
C22_NadaEnviado ==
    \A i \in 1..Len(email.tentativas) : ~email.tentativas[i].ok

\* C22: with the notification disabled, or with the API and SMTP both
\* unconfigured or failing, enviar_email_nova_demanda returns a result that
\* is not an error: its success flag is True
C22_ResultadoSemErro ==
    (email.pc = "fim" /\ (~email.cfg.enabled_new \/ C22_NadaEnviado)) => email.retorno.ok

\* C24: the API is tried first when it is configured and SMTP only after the
\* API failed; without the API only SMTP is tried; a dispatch tries each
\* provider at most once and tries nothing after a provider succeeded
C24_OrdemDosProvedores ==
    LET ts == email.tentativas
    IN  /\ Len(ts) <= 2
        /\ \A i \in 1..Len(ts) : \A j \in 1..Len(ts) :
              ts[i].provedor = ts[j].provedor => i = j
        /\ \A i \in 1..Len(ts) : i < Len(ts) => ~ts[i].ok
        /\ email.cfg.api_key =>
              /\ Len(ts) >= 1 => ts[1].provedor = "api"
              /\ Len(ts) = 2 => (ts[2].provedor = "smtp" /\ ~ts[1].ok)
        /\ ~email.cfg.api_key => \A i \in 1..Len(ts) : ts[i].provedor = "smtp"
        /\ (email.pc = "fim" /\ email.cfg.enabled_new) => Len(ts) >= 1
        /\ ~email.cfg.enabled_new => Len(ts) = 0

\* the API failed and SMTP, tried after it, delivered the message
C24_ApiFalhouSmtpEnviou ==
    /\ email.pc = "fim"
    /\ email.tentativas = <<[provedor |-> "api", ok |-> FALSE],
                            [provedor |-> "smtp", ok |-> TRUE]>>
    /\ email.retorno.ok

\* the spellings of code c: DDMMYY-NN, DDMMYYNN and DD/MM/YY-NN
C23_Grafias(c) ==
    LET t == Texto(c)
    IN  {t,
         SubSeq(t, 1, 6) \o SubSeq(t, 8, Len(t)),
         SubSeq(t, 1, 2) \o <<"/">> \o SubSeq(t, 3, 4) \o <<"/">> \o SubSeq(t, 5, Len(t))}

C23_Normalizada ==
    \A d \in demandas :
        Len(Texto(d.codigo)) = 9 =>
            \A g \in C23_Grafias(d.codigo) :
                /\ normalizar_busca_codigo(g) = Texto(d.codigo)
                /\ carregar_demandas(demandas, [SemFiltros EXCEPT !.codigo = g]) = {d}

C23_PassoDeBusca ==
    (consulta' # consulta /\ consulta'.funcao = "carregar_demandas"
       /\ consulta'.filtros = [SemFiltros EXCEPT !.codigo = consulta'.filtros.codigo]) =>
        \A c \in {[prefixo |-> pr, seq |-> n] : pr \in Dias, n \in 1..9} :
            consulta'.filtros.codigo \in C23_Grafias(c) =>
                consulta'.resultado = {d \in demandas : d.codigo = c}

\* C23: normalizar_busca_codigo maps the spellings DDMMYYNN, DDMMYY-NN and
\* DD/MM/YY-NN of a code to DDMMYY-NN, and leaves DDMMYY-NN as it is; a
\* listing filtered by a code in any of the spellings holds exactly the
\* demand that has this code
C23_BuscaPorCodigo == [](C23_Normalizada) /\ [][C23_PassoDeBusca]_vars

\* the listing asked for 31/12/24-01 holds the first demand of day 1 and
\* not the second
C23_BuscaComBarras ==
    /\ consulta.funcao = "carregar_demandas"
    /\ consulta.filtros.codigo = <<"3", "1", "/", "1", "2", "/", "2", "4", "-", "0", "1">>
    /\ Cardinality(consulta.resultado) = 1
    /\ \A d \in consulta.resultado : d.id = 1
    /\ Cardinality(demandas) >= 2

\* C25: an atualizar_demanda of a stored demand whose dict holds only values
\* equal to the stored ones returns True and changes nothing: no field, not
\* data_atualizacao, and no history row
C25_AtualizacaoSemMudanca ==
    [][\A p \in Procs :
          (pc[p] = "idle" /\ funcao'[p] = "atualizar_demanda"
             /\ Existe(demanda_id'[p])
             /\ \A c \in Chaves(dados'[p]) :
                   Valor(dados'[p], c) = Valor(Linha(demanda_id'[p]), c)) =>
              /\ pc'[p] = "fim"
              /\ result'[p] = [tipo |-> "bool", valor |-> TRUE]
              /\ TabelasInalteradas
              /\ ~commitou'[p]]_vars

\* an atualizar_demanda whose dict holds the stored quantidade, written by an
\* earlier update, has returned True without a commit
C25_MesmosValores ==
    \E p \in Procs :
        /\ funcao[p] = "atualizar_demanda"
        /\ pc[p] = "fim"
        /\ result[p] = Bool(TRUE)
        /\ ~commitou[p]
        /\ Chaves(dados[p]) = {"quantidade"}
        /\ Existe(demanda_id[p])
        /\ Linha(demanda_id[p]).quantidade = dados[p].quantidade
        /\ Linha(demanda_id[p]).data_atualizacao = demanda_antiga[p].data_atualizacao
        /\ \E h \in historico_demandas :
              h.demanda_id = demanda_id[p] /\ h.acao = "ATUALIZAÇÃO"

\* C26: atualizar_demanda and excluir_demanda called with an id that no
\* stored demand has return False and leave the demands and the history as
\* they were
C26_NaoEncontrada ==
    [][\A p \in Procs :
          (pc'[p] = "fim" /\ pc[p] # "fim" /\ ~Existe(demanda_id'[p])
             /\ funcao'[p] \in {"atualizar_demanda", "excluir_demanda"}
             /\ ~conn[p].del) =>
              /\ result'[p] = Bool(FALSE)
              /\ TabelasInalteradas]_vars

\* C27: the "antigo" of every committed ATUALIZAÇÃO row holds, for each field
\* it lists, the value the stored demand had right before the write of that
\* update, also when two calls of atualizar_demanda on one demand interleave
C27_AntigoFiel ==
    [][\A p \in Procs :
          (pc[p] = "u_commit" /\ pc'[p] = "fim") =>
              \A h \in historico_demandas' \ historico_demandas :
                  \A antes \in demandas :
                      antes.id = h.demanda_id =>
                          \A c \in campos[p] :
                              Valor(h.detalhes.antigo, c) = Valor(antes, c)]_vars

\* C28: in both implementations of adicionar_demanda a result of None means
\* that the call committed no demand row: nothing that runs after
\* conn.commit() turns the result into None
C28_NoneSemDemanda ==
    \A p \in Procs :
        (pc[p] = "fim" /\ result[p] = None
           /\ funcao[p] \in {"adicionar_demanda", "app.adicionar_demanda"}) =>
            ~commitou[p]

\* the demands of today that were committed after the call of session p began
C29_CriadasDurante(p) ==
    {d \in demandas : d.codigo.prefixo = agora /\ d.id \notin inicio[p]}

\* the call of session p, with a valid quantity, used up its attempts
C29_Esgotou(p) ==
    /\ pc[p] = "fim"
    /\ funcao[p] = "adicionar_demanda"
    /\ result[p] = None
    /\ dados[p].quantidade > 0

\* C29: a call of adicionar_demanda runs out of attempts only if at least 8
\* other transactions committed a demand of the same day while it ran; so
\* when no more than 8 create calls are made and nothing else writes, none
\* of them runs out of attempts
C29_OitoConcorrentes ==
    \A p \in Procs :
        C29_Esgotou(p) =>
            /\ Cardinality(C29_CriadasDurante(p)) >= 8
            /\ \A d \in C29_CriadasDurante(p) : d.id # nova_id[p]
            /\ chamadas > 8

\* a call ran out of attempts while exactly 8 demands of other calls were
\* committed, the ninth call of the run
C29_NonaChamada ==
    \E p \in Procs :
        /\ C29_Esgotou(p)
        /\ Cardinality(C29_CriadasDurante(p)) = 8
        /\ chamadas = 8 + 1

\* session p commits the first creation of the day after the deletion of the
\* demand that held the highest sequence of that day, in a call that began
\* after the deletion
C30_ProximaCriacao(p) ==
    /\ funcao[p] = "adicionar_demanda"
    /\ commitou'[p] /\ ~commitou[p]
    /\ excluida.maior
    /\ excluida.proxima = SemCodigo
    /\ excluida.codigo.prefixo = codigo[p].prefixo
    /\ p \notin excluida.emcurso

\* the highest sequence stored for the day of code c, 0 when there is none
C30_MaiorRestante(c) ==
    Setmax({d.codigo.seq : d \in {x \in demandas : x.codigo.prefixo = c.prefixo}}
              \cup {0})

\* no two stored demands have the same code
C30_UnicoEntreArmazenadas ==
    \A d, e \in demandas : d.codigo = e.codigo => d.id = e.id

\* the next creation takes the sequence above the highest one still stored,
\* never above the deleted one
C30_PassoDeCriacao ==
    \A p \in Procs :
        C30_ProximaCriacao(p) =>
            /\ codigo[p].seq = C30_MaiorRestante(codigo[p]) + 1
            /\ codigo[p].seq <= excluida.codigo.seq
            /\ codigo[p] \in {d.codigo : d \in demandas'}
            /\ (codigo[p] = excluida.codigo) <=>
                   (C30_MaiorRestante(codigo[p]) = excluida.codigo.seq - 1)

\* C30 (amended): codes are unique among the demands stored at the time
\* only; after the demand with the highest sequence of the day is deleted,
\* the next creation of that day is issued the sequence one above the highest
\* sequence still stored, which is the code of the deleted demand exactly
\* when the sequence just below it is still stored (or it was the 01)
C30_CodigoReemitido ==
    [](C30_UnicoEntreArmazenadas) /\ [][C30_PassoDeCriacao]_vars

\* C30: after the demand with the highest sequence of the day is deleted,
\* the next creation of that day is issued the code the deleted demand had
C30_MesmoCodigo ==
    [][\A p \in Procs :
          C30_ProximaCriacao(p) => codigo[p] = excluida.codigo]_vars

\* the demand with the highest sequence of the day was deleted while no call
\* was running, and the creation after it was issued its code, now stored
\* again
C30_CodigoDeVolta ==
    /\ excluida.maior
    /\ excluida.emcurso = {}
    /\ excluida.proxima = excluida.codigo
    /\ \E d \in demandas : d.codigo = excluida.codigo

====
